---- MODULE Spec2Model ----
(***************************************************************************)
(* astro-sdk: the Engine Access Coordinator (core/ephemeris.py,            *)
(* core/ephemeris_context.py) and the event finders built on it            *)
(* (services/*.py), modelled as a state machine.                           *)
(*                                                                         *)
(* The Swiss Ephemeris library ("swe") is one process-global resource: its *)
(* sidereal mode, topocentric position and tidal acceleration are module   *)
(* globals.  Callers are threads; a thread is "inside swe" between the     *)
(* call of a swe.* function and its return.                                *)
(*                                                                         *)
(* Optional (None-able) Python arguments are sequences of length 0 or 1.   *)
(***************************************************************************)
EXTENDS Integers, Sequences, FiniteSets, TLC

VARIABLES
    SWISS_LOCK,        \* core/ephemeris.py _SWISS_LOCK (RLock): [owner, count]
    state_lock,        \* EphemerisContext._state_lock (Lock): its owner
    swe_sid_mode,      \* swe global: sidereal mode (swe.set_sid_mode)
    swe_topo,          \* swe global: topocentric position (swe.set_topo)
    swe_tid_acc,       \* swe global: tidal acceleration (swe.set_tid_acc)
    eph_sidereal_mode,     \* Ephemeris._sidereal_mode
    pc,                \* per thread: position in the running operation
    op,                \* per thread: the running operation and its arguments
    left,              \* per thread: samples the context body has yet to take
    result,            \* per thread: outcome of the last finished operation
    nCalls,            \* per thread: swe.* invocations made by the operation
    nLocks,            \* per thread: _SWISS_LOCK acquisitions made by the operation
    prior,             \* engine configuration seen when the caller's operation began
    sky,               \* the ephemeris data the engine computes from (never changes)
    sampled,           \* the first position calculate_planet gave a thread, with its arguments
    cls_instance,      \* Ephemeris._instance: "None" or "created"
    cls_lock,          \* Ephemeris._lock (RLock): its owner
    initialized,       \* Ephemeris._instance._initialized: "unset", "False" or "True"
    initRuns           \* how often the body of Ephemeris.__init__ has run

engineVars == <<swe_sid_mode, swe_topo, swe_tid_acc, eph_sidereal_mode>>
lockVars   == <<SWISS_LOCK, state_lock>>
classVars  == <<cls_instance, cls_lock, initialized, initRuns>>
ghostVars  == <<prior, sky, sampled, classVars>>
threadVars == <<pc, op, left, result, nCalls, nLocks>>
vars == <<SWISS_LOCK, state_lock, swe_sid_mode, swe_topo, swe_tid_acc,
          eph_sidereal_mode, pc, op, left, result, nCalls, nLocks, prior, sky, sampled,
          cls_instance, cls_lock, initialized, initRuns>>

----------------------------------------------------------------------------
(* Bounds of the model *)

MaxBodySamples == 1      \* samples taken inside one EphemerisContext block
MaxFailAt      == 2      \* the swe call that raises is one of the first MaxFailAt
MaxDaysBound   == 3      \* largest max_days of a station search
MaxYearDays    == 14     \* longest year of find_all_stations, in days
MaxFinderSamples == 2   \* most samples a concurrent finder takes

----------------------------------------------------------------------------
(* Program constants *)

FAGAN_BRADLEY == 0
LAHIRI == 1
RAMAN == 3
TIDAL_AUTOMATIC == 999999

SUN == 0
MOON == 1
MERCURY == 2
VENUS == 3
MARS == 4
JUPITER == 5
SATURN == 6
URANUS == 7
NEPTUNE == 8
PLUTO == 9
MEAN_NODE == 10
TRUE_NODE == 11
MEAN_NODE_OPP == -1
CHIRON == 15
CERES == 17
PALLAS == 18
JUNO == 19
VESTA == 20

ALLOWED_PLANETS ==
    {SUN, MOON, MERCURY, VENUS, MARS, JUPITER, SATURN, URANUS, NEPTUNE, PLUTO,
     TRUE_NODE, MEAN_NODE, CHIRON, CERES, PALLAS, JUNO, VESTA}

MAX_SEARCH_DAYS == 36525
StationIterations == 20

PLACIDUS == "P"
KOCH     == "K"
PORPHYRY == "O"
EQUAL    == "E"

----------------------------------------------------------------------------
(* Values *)

Threads  == {"t1", "t2"}
NoThread == "none"
Caller   == "t1"                  \* the single caller of the sequential runs

None     == <<>>
Some(v)  == <<v>>
Opt(S)   == {None} \cup {Some(v) : v \in S}

Geocentric == <<0, 0, 0>>         \* swe.set_topo(0, 0, 0)
Venice     == <<12, 45, 0>>       \* swe.set_topo(12, 45, 0): lon, lat, alt

SiderealModes == {LAHIRI, RAMAN}
Sites         == {Venice}
TidalValues   == {-26}
BodyIds       == {MERCURY, 999}

(* The outcome of an operation: how it ended (kind), the number returned   *)
(* or the message carried (val), the message of the swe.* exception that   *)
(* was raised while it ran (swe_error, 0 when none was), and the list      *)
(* returned, or the rest of the tuple returned (items).                    *)
Res(kind, val, swe_error, items) ==
    [kind |-> kind, val |-> val, swe_error |-> swe_error, items |-> items]
NoResult == Res("none", 0, 0, <<>>)
Ok(v)    == Res("ok", v, 0, <<>>)
OkList(items) == Res("ok", Len(items), 0, items)
NotFound == Res("None", 0, 0, <<>>)
Raised(e) == Res(e, 0, 0, <<>>)
SweMessage(n) == 100 + n          \* message of the exception of the n-th swe call

Config == [sid |-> swe_sid_mode, topo |-> swe_topo, tid |-> swe_tid_acc]

----------------------------------------------------------------------------
(* The engine.  Time is counted in ticks, TicksPerDay to the day, from the *)
(* epoch of the run; a longitude is counted in units of which DegUnits     *)
(* make one degree.  A body moves one unit per tick (16 degrees a day), so *)
(* its longitude differs at any two ticks of a bracket and a bisection of  *)
(* a whole-day bracket is exact for 25 halvings, as it is in binary        *)
(* floating point.                                                         *)
(*                                                                         *)
(* sky.lon0 is the tropical longitude of the body at tick 0, sky.dir its   *)
(* direction of motion before its station (1 direct, -1 retrograde) and    *)
(* sky.root >= 0 the tick of the station, where the direction reverses.    *)
(* With sky.period > 0 the direction reverses again every sky.period ticks *)
(* after that; with sky.dir = 0 the body stands still.                     *)
(* Sun and Moon never station.                                             *)

TicksPerDay == 2^25
DegUnits    == 2^21
Circle      == 360 * DegUnits
Deg(d)      == d * DegUnits
Days(d)     == d * TicksPerDay

Abs(x) == IF x < 0 THEN -x ELSE x
Sgn(x) == IF x > 0 THEN 1 ELSE IF x < 0 THEN -1 ELSE 0
Min(a, b) == IF a < b THEN a ELSE b

(* the value of an expression, bound once: Only({e(x) : x \in {v}}) *)
Only(S) == CHOOSE x \in S : TRUE

Ayanamsa(mode) ==
    CASE mode = FAGAN_BRADLEY -> Deg(25)
      [] mode = LAHIRI        -> Deg(24)
      [] mode = RAMAN         -> Deg(22)
      [] OTHER                -> 0

Stations(planet) == planet \notin {SUN, MOON}

(* the distance of the body from where it stationed first, x ticks later *)
Swing(s, x) ==
    IF s.period = 0
    THEN x
    ELSE IF x % (2 * s.period) < s.period
    THEN x % (2 * s.period)
    ELSE 2 * s.period - (x % (2 * s.period))

speed_long(s, planet, jd) ==
    IF ~Stations(planet)
    THEN 1
    ELSE IF s.period = 0 \/ jd <= s.root
    THEN s.dir * Sgn(s.root - jd)
    ELSE IF (jd - s.root) % s.period = 0
    THEN 0
    ELSE IF (jd - s.root) % (2 * s.period) < s.period THEN -s.dir ELSE s.dir

(* the units the body has moved since tick 0, direct motion counted positive *)
Moved(s, planet, jd) ==
    IF ~Stations(planet)
    THEN jd
    ELSE IF jd <= s.root
    THEN s.dir * jd
    ELSE s.dir * (s.root - Swing(s, jd - s.root))

TropicalLongitude(s, planet, jd) ==
    (((s.lon0 + Moved(s, planet, jd)) % Circle) + Circle) % Circle

(* swe.calc_ut(jd, planet, flags): FLG_SIDEREAL subtracts the ayanamsa of  *)
(* the sidereal mode the library is in at the time of the call.            *)
calc_ut(s, jd, planet, sidereal, mode) ==
    [longitude  |-> IF sidereal
                    THEN (TropicalLongitude(s, planet, jd) - Ayanamsa(mode) + Circle) % Circle
                    ELSE TropicalLongitude(s, planet, jd),
     speed_long |-> speed_long(s, planet, jd)]

DefaultSky == [lon0 |-> Deg(40), dir |-> 1, root |-> Days(2), period |-> 0]

----------------------------------------------------------------------------
(* Locks *)

CanAcquire(t) == SWISS_LOCK.owner \in {NoThread, t}

Acquired(t) == [owner |-> t, count |-> SWISS_LOCK.count + 1]

Released ==
    IF SWISS_LOCK.count = 1
    THEN [owner |-> NoThread, count |-> 0]
    ELSE [owner |-> SWISS_LOCK.owner, count |-> SWISS_LOCK.count - 1]

----------------------------------------------------------------------------
(* Operations a thread can start *)

OpSetSiderealMode == [name : {"set_sidereal_mode"}, mode : SiderealModes]
OpSetTopocentric  == [name : {"set_topocentric"}, lat : {45}, lon : {12}, alt : {0}]
OpCalculatePlanet == [name : {"calculate_planet"}, jd : {0}, planet : BodyIds,
                      sidereal : {TRUE}]
OpContext         == [name : {"EphemerisContext"}, sid_mode : Opt(SiderealModes),
                      topo : Opt(Sites), tidal : Opt(TidalValues), planet : {MERCURY}]
LeaveKinds        == {"normal", "raise", "return"}
OpGetRiseSet      == [name : {"get_rise_set"}, lat : {45}, lon : {12}, alt : {0}]

Entry(o) ==
    CASE o.name = "set_sidereal_mode" -> "ssm"
      [] o.name = "set_topocentric"   -> "stp"
      [] o.name = "calculate_planet"  -> "cp"
      [] o.name = "EphemerisContext"  -> "enter"
      [] o.name = "get_rise_set"      -> "rs"
      [] o.name = "Ephemeris"         -> "new"

IdleOp == [name |-> "idle"]

Begin(t, o) ==
    /\ pc[t] = "idle"
    /\ op' = [op EXCEPT ![t] = o]
    /\ pc' = [pc EXCEPT ![t] = Entry(o)]
    /\ left' = [left EXCEPT ![t] = IF o.name = "EphemerisContext" THEN MaxBodySamples ELSE 0]
    /\ result' = [result EXCEPT ![t] = NoResult]
    /\ nCalls' = [nCalls EXCEPT ![t] = 0]
    /\ nLocks' = [nLocks EXCEPT ![t] = 0]
    /\ UNCHANGED <<engineVars, lockVars>>

(* The operation has returned or raised; the thread is ready for the next *)
Finished(t) ==
    /\ pc[t] = "done"
    /\ pc' = [pc EXCEPT ![t] = "idle"]
    /\ op' = [op EXCEPT ![t] = IdleOp]
    /\ left' = [left EXCEPT ![t] = 0]
    /\ result' = [result EXCEPT ![t] = NoResult]
    /\ nCalls' = [nCalls EXCEPT ![t] = 0]
    /\ nLocks' = [nLocks EXCEPT ![t] = 0]
    /\ UNCHANGED <<engineVars, lockVars>>

----------------------------------------------------------------------------
(* Ephemeris.set_sidereal_mode *)

SetSiderealMode_Call(t) ==
    /\ pc[t] = "ssm"
    /\ CanAcquire(t)
    /\ SWISS_LOCK' = Acquired(t)
    /\ eph_sidereal_mode' = op[t].mode
    /\ pc' = [pc EXCEPT ![t] = "ssm_swe"]
    /\ nCalls' = [nCalls EXCEPT ![t] = @ + 1]
    /\ nLocks' = [nLocks EXCEPT ![t] = @ + 1]
    /\ UNCHANGED <<state_lock, swe_sid_mode, swe_topo, swe_tid_acc, op, left, result, ghostVars>>

SetSiderealMode_Return(t) ==
    /\ pc[t] = "ssm_swe"
    /\ swe_sid_mode' = op[t].mode
    /\ SWISS_LOCK' = Released
    /\ pc' = [pc EXCEPT ![t] = "done"]
    /\ result' = [result EXCEPT ![t] = Ok(0)]
    /\ UNCHANGED <<state_lock, swe_topo, swe_tid_acc, eph_sidereal_mode, op, left, nCalls, nLocks, ghostVars>>

(* Ephemeris.set_topocentric *)

SetTopocentric_Call(t) ==
    /\ pc[t] = "stp"
    /\ CanAcquire(t)
    /\ SWISS_LOCK' = Acquired(t)
    /\ pc' = [pc EXCEPT ![t] = "stp_swe"]
    /\ nCalls' = [nCalls EXCEPT ![t] = @ + 1]
    /\ nLocks' = [nLocks EXCEPT ![t] = @ + 1]
    /\ UNCHANGED <<state_lock, engineVars, op, left, result, ghostVars>>

SetTopocentric_Return(t) ==
    /\ pc[t] = "stp_swe"
    /\ swe_topo' = <<op[t].lon, op[t].lat, op[t].alt>>
    /\ SWISS_LOCK' = Released
    /\ pc' = [pc EXCEPT ![t] = "done"]
    /\ result' = [result EXCEPT ![t] = Ok(0)]
    /\ UNCHANGED <<state_lock, swe_sid_mode, swe_tid_acc, eph_sidereal_mode, op, left, nCalls, nLocks, ghostVars>>

----------------------------------------------------------------------------
(* Ephemeris.calculate_planet.  Inside an EphemerisContext body a sample   *)
(* that raises leaves the block through __exit__.                          *)

ExitFrom_NoSidRestore(o, stage) ==
    IF stage <= 1 /\ o.tidal # None THEN "ex_tid_swe"
    ELSE IF stage <= 3 /\ o.topo # None THEN "ex_topo_swe"
    ELSE "done"

ExitFrom(o, stage) ==
    IF stage <= 1 /\ o.tidal # None THEN "ex_tid_swe"
    ELSE IF stage <= 2 /\ o.sid_mode # None THEN "ex_sid_swe"
    ELSE IF stage <= 3 /\ o.topo # None THEN "ex_topo_swe"
    ELSE "done"

AfterSample(o, r) ==
    IF o.name = "EphemerisContext"
    THEN IF r.kind = "ok" THEN "body" ELSE ExitFrom(o, 1)
    ELSE "done"

InSwe(t) == pc[t] \in {"ssm_swe", "stp_swe", "cp_swe", "en_sid_swe", "en_topo_swe",
                       "en_tid_swe", "ex_tid_swe", "ex_sid_swe", "ex_topo_swe",
                       "rs_topo_swe", "rs_rise_swe", "rs_set_swe"}

Bump(t, p) == IF p \in {"en_sid_swe", "en_topo_swe", "en_tid_swe", "ex_tid_swe",
                        "ex_sid_swe", "ex_topo_swe", "rs_rise_swe", "rs_set_swe"}
              THEN [nCalls EXCEPT ![t] = @ + 1] ELSE nCalls

Allowed_NonNegative(planet) == planet >= 0

Allowed(planet) == planet \in ALLOWED_PLANETS

CalculatePlanet_Reject(t) ==
    /\ pc[t] = "cp"
    /\ ~Allowed(op[t].planet)
    /\ LET r == Raised("UnsupportedPlanetError")
           p == AfterSample(op[t], r)
       IN  /\ result' = [result EXCEPT ![t] = r]
           /\ pc' = [pc EXCEPT ![t] = p]
           /\ nCalls' = Bump(t, p)
    /\ UNCHANGED <<lockVars, engineVars, op, left, nLocks, ghostVars>>

CalculatePlanet_Call(t) ==
    /\ pc[t] = "cp"
    /\ Allowed(op[t].planet)
    /\ CanAcquire(t)
    /\ SWISS_LOCK' = Acquired(t)
    /\ pc' = [pc EXCEPT ![t] = "cp_swe"]
    /\ nCalls' = [nCalls EXCEPT ![t] = @ + 1]
    /\ nLocks' = [nLocks EXCEPT ![t] = @ + 1]
    /\ UNCHANGED <<state_lock, engineVars, op, left, result, ghostVars>>

CalculatePlanet_Return(t) ==
    /\ pc[t] = "cp_swe"
    /\ \E fails \in BOOLEAN :
         LET sidereal == IF op[t].name = "calculate_planet" THEN op[t].sidereal ELSE TRUE
             msg == SweMessage(nCalls[t])
             r == IF fails
                  THEN Res("EphemerisError", msg, msg, <<>>)
                  ELSE Ok(calc_ut(sky, 0, op[t].planet, sidereal, swe_sid_mode).longitude)
             p == AfterSample(op[t], r)
         IN  /\ result' = [result EXCEPT ![t] = r]
             /\ pc' = [pc EXCEPT ![t] = p]
             /\ nCalls' = Bump(t, p)
    /\ SWISS_LOCK' = Released
    /\ UNCHANGED <<state_lock, engineVars, op, left, nLocks, ghostVars>>

----------------------------------------------------------------------------
(* EphemerisContext.__enter__, the block's body, EphemerisContext.__exit__ *)

EnterFrom(o, stage) ==
    IF stage <= 1 /\ o.sid_mode # None THEN "en_sid_swe"
    ELSE IF stage <= 2 /\ o.topo # None THEN "en_topo_swe"
    ELSE IF stage <= 3 /\ o.tidal # None THEN "en_tid_swe"
    ELSE "body"

Enter_Acquire(t) ==
    /\ pc[t] = "enter"
    /\ state_lock = NoThread
    /\ LET p == EnterFrom(op[t], 1)
       IN  /\ pc' = [pc EXCEPT ![t] = p]
           /\ state_lock' = IF p = "body" THEN NoThread ELSE t
           /\ nCalls' = Bump(t, p)
    /\ UNCHANGED <<SWISS_LOCK, engineVars, op, left, result, nLocks, ghostVars>>

Enter_Return(t) ==
    /\ pc[t] \in {"en_sid_swe", "en_topo_swe", "en_tid_swe"}
    /\ LET stage == CASE pc[t] = "en_sid_swe" -> 1 [] pc[t] = "en_topo_swe" -> 2
                      [] pc[t] = "en_tid_swe" -> 3
           p == EnterFrom(op[t], stage + 1)
       IN  /\ swe_sid_mode' = IF stage = 1 THEN op[t].sid_mode[1] ELSE swe_sid_mode
           /\ swe_topo' = IF stage = 2 THEN op[t].topo[1] ELSE swe_topo
           /\ swe_tid_acc' = IF stage = 3 THEN op[t].tidal[1] ELSE swe_tid_acc
           /\ pc' = [pc EXCEPT ![t] = p]
           /\ state_lock' = IF p = "body" THEN NoThread ELSE state_lock
           /\ nCalls' = Bump(t, p)
    /\ UNCHANGED <<SWISS_LOCK, eph_sidereal_mode, op, left, result, nLocks, ghostVars>>

Body_Sample(t) ==
    /\ pc[t] = "body"
    /\ left[t] > 0
    /\ left' = [left EXCEPT ![t] = @ - 1]
    /\ pc' = [pc EXCEPT ![t] = "cp"]
    /\ UNCHANGED <<lockVars, engineVars, op, result, nCalls, nLocks, ghostVars>>

Body_Leave(t) ==
    /\ pc[t] = "body"
    /\ LET p == ExitFrom(op[t], 1)
       IN  /\ pc' = [pc EXCEPT ![t] = p]
           /\ nCalls' = Bump(t, p)
    /\ \E leave \in LeaveKinds :
         result' = [result EXCEPT ![t] =
                       CASE leave = "raise"  -> Raised("BodyError")
                         [] leave = "return" -> Res("return", 0, 0, <<>>)
                         [] OTHER            -> Ok(0)]
    /\ left' = [left EXCEPT ![t] = 0]
    /\ UNCHANGED <<lockVars, engineVars, op, nLocks, ghostVars>>

Exit_Return(t) ==
    /\ pc[t] \in {"ex_tid_swe", "ex_sid_swe", "ex_topo_swe"}
    /\ LET stage == CASE pc[t] = "ex_tid_swe" -> 1 [] pc[t] = "ex_sid_swe" -> 2
                      [] pc[t] = "ex_topo_swe" -> 3
           p == ExitFrom(op[t], stage + 1)
       IN  /\ swe_tid_acc' = IF stage = 1 THEN TIDAL_AUTOMATIC ELSE swe_tid_acc
           /\ swe_sid_mode' = IF stage = 2 THEN LAHIRI ELSE swe_sid_mode
           /\ swe_topo' = IF stage = 3 THEN Geocentric ELSE swe_topo
           /\ pc' = [pc EXCEPT ![t] = p]
           /\ nCalls' = Bump(t, p)
    /\ UNCHANGED <<lockVars, eph_sidereal_mode, op, left, result, nLocks, ghostVars>>

----------------------------------------------------------------------------
(* EventService.get_rise_set: set_topocentric under the lock, then two     *)
(* swe.rise_trans calls made directly, outside any lock.                   *)

GetRiseSet_Call(t) ==
    /\ pc[t] = "rs"
    /\ CanAcquire(t)
    /\ SWISS_LOCK' = Acquired(t)
    /\ pc' = [pc EXCEPT ![t] = "rs_topo_swe"]
    /\ nCalls' = [nCalls EXCEPT ![t] = @ + 1]
    /\ nLocks' = [nLocks EXCEPT ![t] = @ + 1]
    /\ UNCHANGED <<state_lock, engineVars, op, left, result, ghostVars>>

GetRiseSet_TopoReturn(t) ==
    /\ pc[t] = "rs_topo_swe"
    /\ swe_topo' = <<op[t].lon, op[t].lat, op[t].alt>>
    /\ SWISS_LOCK' = Released
    /\ pc' = [pc EXCEPT ![t] = "rs_rise_swe"]
    /\ nCalls' = [nCalls EXCEPT ![t] = @ + 1]
    /\ UNCHANGED <<state_lock, swe_sid_mode, swe_tid_acc, eph_sidereal_mode, op, left, result, nLocks, ghostVars>>

GetRiseSet_RiseTrans(t) ==
    /\ pc[t] \in {"rs_rise_swe", "rs_set_swe"}
    /\ \E fails \in BOOLEAN :
         IF fails
         THEN /\ pc' = [pc EXCEPT ![t] = "done"]
              /\ result' = [result EXCEPT ![t] =
                     Res("Exception", SweMessage(nCalls[t]), SweMessage(nCalls[t]), <<>>)]
              /\ UNCHANGED nCalls
         ELSE IF pc[t] = "rs_rise_swe"
         THEN /\ pc' = [pc EXCEPT ![t] = "rs_set_swe"]
              /\ nCalls' = [nCalls EXCEPT ![t] = @ + 1]
              /\ UNCHANGED result
         ELSE /\ pc' = [pc EXCEPT ![t] = "done"]
              /\ result' = [result EXCEPT ![t] = Ok(0)]
              /\ UNCHANGED nCalls
    /\ UNCHANGED <<lockVars, engineVars, op, left, nLocks, ghostVars>>

----------------------------------------------------------------------------
(* Concurrent callers *)

LightOps == OpSetSiderealMode \cup OpSetTopocentric \cup OpCalculatePlanet
            \cup OpContext \cup OpGetRiseSet

StartOp(t) == \E o \in LightOps : Begin(t, o) /\ UNCHANGED ghostVars

(* the first position calculate_planet gives is kept, to compare later ones *)
EndOp(t) ==
    /\ Finished(t)
    /\ sampled' = IF sampled = None /\ op[t].name = "calculate_planet" /\ result[t].kind = "ok"
                  THEN Some([jd |-> op[t].jd, planet |-> op[t].planet,
                             sidereal |-> op[t].sidereal, longitude |-> result[t].val])
                  ELSE sampled
    /\ UNCHANGED <<prior, sky, classVars>>

(* Ephemeris() has been constructed once *)
Constructed ==
    /\ cls_instance = "created"
    /\ cls_lock = NoThread
    /\ initialized = "True"
    /\ initRuns = 1

Init ==
    /\ SWISS_LOCK = [owner |-> NoThread, count |-> 0]
    /\ state_lock = NoThread
    /\ swe_sid_mode = LAHIRI
    /\ swe_topo = Geocentric
    /\ swe_tid_acc = TIDAL_AUTOMATIC
    /\ eph_sidereal_mode = LAHIRI
    /\ pc = [t \in Threads |-> "idle"]
    /\ op = [t \in Threads |-> IdleOp]
    /\ left = [t \in Threads |-> 0]
    /\ result = [t \in Threads |-> NoResult]
    /\ nCalls = [t \in Threads |-> 0]
    /\ nLocks = [t \in Threads |-> 0]
    /\ prior = [sid |-> LAHIRI, topo |-> Geocentric, tid |-> TIDAL_AUTOMATIC]
    /\ sky = DefaultSky
    /\ sampled = None
    /\ Constructed

Running(t) ==
    \/ SetSiderealMode_Call(t)
    \/ SetSiderealMode_Return(t)
    \/ SetTopocentric_Call(t)
    \/ SetTopocentric_Return(t)
    \/ CalculatePlanet_Reject(t)
    \/ CalculatePlanet_Call(t)
    \/ CalculatePlanet_Return(t)
    \/ Enter_Acquire(t)
    \/ Enter_Return(t)
    \/ Body_Sample(t)
    \/ Body_Leave(t)
    \/ Exit_Return(t)
    \/ GetRiseSet_Call(t)
    \/ GetRiseSet_TopoReturn(t)
    \/ GetRiseSet_RiseTrans(t)

Next == \E t \in Threads : StartOp(t) \/ Running(t) \/ EndOp(t)

Spec == Init /\ [][Next]_vars

----------------------------------------------------------------------------
(* The sequential caller.  One thread runs the operations above step by    *)
(* step and the handlers below as single steps.  The swe call that raises, *)
(* if any, is the failAt-th call of the operation (0: none raises).        *)

EngineError(n) == Res("EphemerisError", SweMessage(n), SweMessage(n), <<>>)

(* Ephemeris.calculate_planet, called with n swe calls already made *)
calculate_planet(s, mode, jd, planet, sidereal, n, failAt) ==
    IF ~Allowed(planet)
    THEN [res |-> Raised("UnsupportedPlanetError"), calls |-> n, longitude |-> 0, speed_long |-> 0]
    ELSE IF n + 1 = failAt
    THEN [res |-> EngineError(n + 1), calls |-> n + 1, longitude |-> 0, speed_long |-> 0]
    ELSE LET xx == calc_ut(s, jd, planet, sidereal, mode)
         IN  [res |-> Ok(xx.longitude), calls |-> n + 1,
              longitude |-> xx.longitude, speed_long |-> xx.speed_long]

(* Ephemeris.calculate_stationary_point *)

NeverStations_AllowedOnly(planet) == planet \notin ALLOWED_PLANETS

NeverStations(planet) == planet \notin ALLOWED_PLANETS \/ planet \in {SUN, MOON}

RECURSIVE StationBracket(_, _, _, _, _, _, _, _, _)
StationBracket(s, mode, planet, step, i, current_jd, last_speed, n, failAt) ==
    IF i = 0
    THEN [kind |-> "none", res |-> NotFound, calls |-> n, jd |-> current_jd, last |-> last_speed]
    ELSE LET jd == current_jd + step
             cur == calculate_planet(s, mode, jd, planet, TRUE, n, failAt)
         IN  IF cur.res.kind # "ok"
             THEN [kind |-> "error", res |-> cur.res, calls |-> cur.calls, jd |-> jd, last |-> last_speed]
             ELSE IF last_speed * cur.speed_long <= 0
             THEN [kind |-> "found", res |-> NotFound, calls |-> cur.calls, jd |-> jd, last |-> last_speed]
             ELSE StationBracket(s, mode, planet, step, i - 1, jd, cur.speed_long, cur.calls, failAt)

RECURSIVE StationBisect(_, _, _, _, _, _, _, _, _)
StationBisect(s, mode, planet, k, t1, t2, last_speed, n, failAt) ==
    IF k = 0
    THEN [res |-> Ok((t1 + t2) \div 2), calls |-> n]
    ELSE LET tm == (t1 + t2) \div 2
             sm == calculate_planet(s, mode, tm, planet, TRUE, n, failAt)
         IN  IF sm.res.kind # "ok"
             THEN [res |-> sm.res, calls |-> sm.calls]
             ELSE IF last_speed * sm.speed_long <= 0
             THEN StationBisect(s, mode, planet, k - 1, t1, tm, last_speed, sm.calls, failAt)
             ELSE StationBisect(s, mode, planet, k - 1, tm, t2, sm.speed_long, sm.calls, failAt)

calculate_stationary_point(s, mode, jd_start, planet, forward, max_days, failAt) ==
    IF NeverStations(planet)
    THEN [res |-> NotFound, calls |-> 0]
    ELSE LET step == IF forward THEN Days(1) ELSE -Days(1)
             first == calculate_planet(s, mode, jd_start, planet, TRUE, 0, failAt)
         IN  IF first.res.kind # "ok"
             THEN [res |-> first.res, calls |-> first.calls]
             ELSE LET b == StationBracket(s, mode, planet, step, max_days, jd_start,
                                          first.speed_long, first.calls, failAt)
                  IN  IF b.kind = "found"
                      THEN StationBisect(s, mode, planet, StationIterations, b.jd - step, b.jd,
                                         b.last, b.calls, failAt)
                      ELSE [res |-> b.res, calls |-> b.calls]

(* Ephemeris.search_solar_eclipse and search_lunar_eclipse.  Julian days   *)
(* of an eclipse search are counted in half days.                          *)

RangeTooLarge_Inclusive(jd_start, jd_end) ==
    /\ jd_end # None
    /\ Abs(jd_end[1] - jd_start) >= 2 * MAX_SEARCH_DAYS

RangeTooLarge(jd_start, jd_end) ==
    /\ jd_end # None
    /\ Abs(jd_end[1] - jd_start) > 2 * MAX_SEARCH_DAYS

search_solar_eclipse(jd_start, jd_end, backward, failAt) ==
    IF RangeTooLarge(jd_start, jd_end)
    THEN [res |-> Raised("SearchRangeTooLargeError"), calls |-> 0]
    ELSE IF failAt = 1
    THEN [res |-> EngineError(1), calls |-> 1]
    ELSE [res |-> Ok(IF backward THEN jd_start - 29 ELSE jd_start + 29), calls |-> 1]

search_lunar_eclipse(jd_start, jd_end, backward, failAt) ==
    IF RangeTooLarge(jd_start, jd_end)
    THEN [res |-> Raised("SearchRangeTooLargeError"), calls |-> 0]
    ELSE IF failAt = 1
    THEN [res |-> EngineError(1), calls |-> 1]
    ELSE [res |-> Ok(IF backward THEN jd_start - 15 ELSE jd_start + 15), calls |-> 1]

(* Ephemeris.calculate_houses and NatalService.calculate_houses.           *)
(* swe.houses cannot compute Placidus or Koch cusps beyond the polar       *)
(* circles.                                                                *)

swe_houses_fails(lat, system) == system \in {PLACIDUS, KOCH} /\ Abs(lat) > 66

Ephemeris_calculate_houses(lat, system, sidereal, n, failAt) ==
    IF n + 1 = failAt \/ swe_houses_fails(lat, system)
    THEN [res |-> EngineError(n + 1), calls |-> n + 1]
    ELSE IF sidereal
    THEN IF n + 2 = failAt
         THEN [res |-> EngineError(n + 2), calls |-> n + 2]
         ELSE [res |-> Ok(0), calls |-> n + 2]
    ELSE [res |-> Ok(0), calls |-> n + 1]

NatalService_calculate_houses(lat, system, failAt) ==
    LET data == Ephemeris_calculate_houses(lat, system, TRUE, 1, failAt)
    IN  IF data.res.kind = "ok"
        THEN data
        ELSE IF system \in {PLACIDUS, KOCH}
        THEN LET fallback == Ephemeris_calculate_houses(lat, PORPHYRY, TRUE, data.calls, failAt)
             IN  [res |-> [fallback.res EXCEPT !.swe_error =
                              IF @ = 0 THEN data.res.swe_error ELSE @],
                  calls |-> fallback.calls]
        ELSE data

(* SwissEphemerisEngine.get_fixed_star_magnitude *)
get_fixed_star_magnitude(failAt) ==
    IF failAt = 1
    THEN [res |-> Res("ok", 0, SweMessage(1), <<>>), calls |-> 1]
    ELSE [res |-> Ok(1), calls |-> 1]

----------------------------------------------------------------------------
(* EventService.scan_ingresses and scan_stations.  The start and the end   *)
(* of a scan are counted in half days, as the bounds of an eclipse search  *)
(* are; the scan itself runs in ticks.  The first swe call of either scan  *)
(* is the swe.set_sid_mode of Ephemeris.set_sidereal_mode.                 *)

HalfDay == TicksPerDay \div 2

(* int(pos["longitude"] / 30) *)
SignOf_Decan(lon) == lon \div Deg(10)

SignOf(lon) == lon \div Deg(30)

(* the offset normalised to the other end of the circle: +180 kept, -180 not *)
SignedOffset_UpperClosed(lon, target_lon) == Deg(180) - ((target_lon - lon + Deg(180)) % Circle)

SignedOffset(lon, target_lon) == ((lon - target_lon + Deg(180)) % Circle) - Deg(180)

(* abs(high - low) < 1e-7 days *)
WithinTolerance(low, high) == Abs(high - low) <= TicksPerDay \div 10000000

RefineIterations == 30

RECURSIVE RefineIngressLoop(_, _, _, _, _, _, _, _, _)
RefineIngressLoop(s, mode, planet, target_lon, k, low, high, n, failAt) ==
    IF k = 0
    THEN [res |-> Ok((low + high) \div 2), calls |-> n]
    ELSE LET mid == (low + high) \div 2
             pos == calculate_planet(s, mode, mid, planet, TRUE, n, failAt)
             diff == SignedOffset(pos.longitude, target_lon)
             low2 == IF diff > 0 THEN low ELSE mid
             high2 == IF diff > 0 THEN mid ELSE high
         IN  IF pos.res.kind # "ok"
             THEN [res |-> pos.res, calls |-> pos.calls]
             ELSE IF WithinTolerance(low2, high2)
             THEN [res |-> Ok((low2 + high2) \div 2), calls |-> pos.calls]
             ELSE RefineIngressLoop(s, mode, planet, target_lon, k - 1, low2, high2,
                                    pos.calls, failAt)

refine_ingress(s, mode, planet, jd1, jd2, s1, s2, n, failAt) ==
    LET target_lon == IF s1 = 11 /\ s2 = 0 THEN 0 ELSE s2 * Deg(30)
    IN  RefineIngressLoop(s, mode, planet, target_lon, RefineIterations, jd1, jd2, n, failAt)

RECURSIVE ScanIngressLoop(_, _, _, _, _, _, _, _, _, _)
ScanIngressLoop(s, mode, planet, step_days, current_jd, end_jd, last_sign, events, n, failAt) ==
    IF ~(current_jd < end_jd)
    THEN [res |-> OkList(events), calls |-> n]
    ELSE LET next_jd == Min(current_jd + step_days, end_jd)
             pos == calculate_planet(s, mode, next_jd, planet, TRUE, n, failAt)
             current_sign == SignOf(pos.longitude)
         IN  IF pos.res.kind # "ok"
             THEN [res |-> pos.res, calls |-> pos.calls]
             ELSE IF current_sign # last_sign
             THEN LET exact == refine_ingress(s, mode, planet, current_jd, next_jd,
                                              last_sign, current_sign, pos.calls, failAt)
                  IN  IF exact.res.kind # "ok"
                      THEN exact
                      ELSE ScanIngressLoop(s, mode, planet, step_days, next_jd, end_jd,
                               current_sign,
                               Append(events, [type |-> "INGRESS", julian_day |-> exact.res.val,
                                               from |-> last_sign, to |-> current_sign]),
                               exact.calls, failAt)
             ELSE ScanIngressLoop(s, mode, planet, step_days, next_jd, end_jd, current_sign,
                                  events, pos.calls, failAt)

scan_ingresses(s, planet, start, end, step_days, sidereal_mode, failAt) ==
    IF (end - start) > 2 * MAX_SEARCH_DAYS
    THEN [res |-> Raised("SearchRangeTooLargeError"), calls |-> 1]
    ELSE LET pos == calculate_planet(s, sidereal_mode, start * HalfDay, planet, TRUE, 1, failAt)
         IN  IF pos.res.kind # "ok"
             THEN [res |-> pos.res, calls |-> pos.calls]
             ELSE ScanIngressLoop(s, sidereal_mode, planet, step_days, start * HalfDay,
                                  end * HalfDay, SignOf(pos.longitude), <<>>, pos.calls, failAt)

SameDirection(v1, v2) == (v1 > 0 /\ v2 > 0) \/ (v1 < 0 /\ v2 < 0)

Reversed(v1, v2) == (v1 > 0 /\ v2 < 0) \/ (v1 < 0 /\ v2 > 0)

RECURSIVE RefineStationLoop(_, _, _, _, _, _, _, _, _)
RefineStationLoop(s, mode, planet, k, low, high, v1, n, failAt) ==
    IF k = 0
    THEN [res |-> Ok((low + high) \div 2), calls |-> n]
    ELSE LET mid == (low + high) \div 2
             pos == calculate_planet(s, mode, mid, planet, TRUE, n, failAt)
             same == SameDirection(v1, pos.speed_long)
             low2 == IF same THEN mid ELSE low
             high2 == IF same THEN high ELSE mid
         IN  IF pos.res.kind # "ok"
             THEN [res |-> pos.res, calls |-> pos.calls]
             ELSE IF WithinTolerance(low2, high2)
             THEN [res |-> Ok((low2 + high2) \div 2), calls |-> pos.calls]
             ELSE RefineStationLoop(s, mode, planet, k - 1, low2, high2,
                                    IF same THEN pos.speed_long ELSE v1, pos.calls, failAt)

refine_station(s, mode, planet, jd1, jd2, n, failAt) ==
    LET pos1 == calculate_planet(s, mode, jd1, planet, TRUE, n, failAt)
    IN  IF pos1.res.kind # "ok"
        THEN [res |-> pos1.res, calls |-> pos1.calls]
        ELSE RefineStationLoop(s, mode, planet, RefineIterations, jd1, jd2,
                               pos1.speed_long, pos1.calls, failAt)

RECURSIVE ScanStationLoop(_, _, _, _, _, _, _, _, _, _)
ScanStationLoop(s, mode, planet, step_days, current_jd, end_jd, last_speed, events, n, failAt) ==
    IF ~(current_jd < end_jd)
    THEN [res |-> OkList(events), calls |-> n]
    ELSE LET next_jd == Min(current_jd + step_days, end_jd)
             pos == calculate_planet(s, mode, next_jd, planet, TRUE, n, failAt)
             current_speed == pos.speed_long
         IN  IF pos.res.kind # "ok"
             THEN [res |-> pos.res, calls |-> pos.calls]
             ELSE IF Reversed(last_speed, current_speed)
             THEN LET exact == refine_station(s, mode, planet, current_jd, next_jd,
                                              pos.calls, failAt)
                  IN  IF exact.res.kind # "ok"
                      THEN exact
                      ELSE ScanStationLoop(s, mode, planet, step_days, next_jd, end_jd,
                               current_speed,
                               Append(events, [type |-> "STATION", julian_day |-> exact.res.val,
                                               from |-> last_speed, to |-> current_speed]),
                               exact.calls, failAt)
             ELSE ScanStationLoop(s, mode, planet, step_days, next_jd, end_jd, current_speed,
                                  events, pos.calls, failAt)

scan_stations(s, planet, start, end, step_days, sidereal_mode, failAt) ==
    IF (end - start) > 2 * MAX_SEARCH_DAYS
    THEN [res |-> Raised("SearchRangeTooLargeError"), calls |-> 1]
    ELSE LET pos == calculate_planet(s, sidereal_mode, start * HalfDay, planet, TRUE, 1, failAt)
         IN  IF pos.res.kind # "ok"
             THEN [res |-> pos.res, calls |-> pos.calls]
             ELSE ScanStationLoop(s, sidereal_mode, planet, step_days, start * HalfDay,
                                  end * HalfDay, pos.speed_long, <<>>, pos.calls, failAt)

----------------------------------------------------------------------------
(* CrossingService.find_planetary_return and find_next_ingress.            *)
(* max_search_years is given by its limit_days, counted in eighths of a    *)
(* day (half a year of 365.25 days is 1461 eighths); a step of the broad   *)
(* search is the fraction num/den of a day.  The Time returned is the tick *)
(* of its Julian day.                                                      *)

HalfYear   == 1461        \* 0.5 * 365.25 days, in eighths of a day
FortyYears == 116880      \* 40.0 * 365.25 days, in eighths of a day

StepOf(planet) == IF planet = MOON THEN [num |-> 1, den |-> 10] ELSE [num |-> 1, den |-> 2]

StepTicks(step) == (TicksPerDay * step.num) \div step.den

(* curr_jd < jd_high, after i steps from jd_start *)
BeforeLimit(i, step, limit_days) == 8 * i * step.num < limit_days * step.den

(* tolerance_seconds / 86400 days, in ticks: (jd_high - jd_low) > tol_jd *)
TolTicks(tolerance_seconds) == (tolerance_seconds * (TicksPerDay \div 128)) \div 675

get_diff(s, mode, planet, target_longitude, jd, n, failAt) ==
    LET pos == calculate_planet(s, mode, jd, planet, TRUE, n, failAt)
    IN  [res |-> pos.res, calls |-> pos.calls,
         diff |-> IF pos.res.kind = "ok"
                  THEN SignedOffset(pos.longitude, target_longitude) ELSE 0]

Crossed(last_diff, diff) ==
    /\ Abs(diff) < Deg(90)
    /\ Abs(last_diff) < Deg(90)
    /\ (last_diff < 0 /\ diff >= 0) \/ (last_diff > 0 /\ diff <= 0)

RECURSIVE BroadSearch(_, _, _, _, _, _, _, _, _, _, _)
BroadSearch(s, mode, planet, target_longitude, step, limit_days, i, curr_jd, last_diff, n, failAt) ==
    IF ~BeforeLimit(i, step, limit_days)
    THEN [found |-> FALSE, res |-> Raised("EphemerisError"), calls |-> n, jd_low |-> 0, jd_high |-> 0]
    ELSE LET d == get_diff(s, mode, planet, target_longitude, curr_jd, n, failAt)
         IN  IF d.res.kind # "ok"
             THEN [found |-> FALSE, res |-> d.res, calls |-> d.calls, jd_low |-> 0, jd_high |-> 0]
             ELSE IF last_diff # None /\ Crossed(last_diff[1], d.diff)
             THEN [found |-> TRUE, res |-> d.res, calls |-> d.calls,
                   jd_low |-> curr_jd - StepTicks(step), jd_high |-> curr_jd]
             ELSE BroadSearch(s, mode, planet, target_longitude, step, limit_days, i + 1,
                              curr_jd + StepTicks(step), Some(d.diff), d.calls, failAt)

RECURSIVE RefineWindow(_, _, _, _, _, _, _, _, _)
RefineWindow(s, mode, planet, target_longitude, tol_jd, jd_low, jd_high, n, failAt) ==
    IF ~((jd_high - jd_low) > tol_jd)
    THEN [res |-> Ok((jd_low + jd_high) \div 2), calls |-> n]
    ELSE LET mid == (jd_low + jd_high) \div 2
             d == get_diff(s, mode, planet, target_longitude, mid, n, failAt)
             low == get_diff(s, mode, planet, target_longitude, jd_low, d.calls, failAt)
         IN  IF d.res.kind # "ok"
             THEN [res |-> d.res, calls |-> d.calls]
             ELSE IF low.res.kind # "ok"
             THEN [res |-> low.res, calls |-> low.calls]
             ELSE IF (low.diff < 0 /\ d.diff > 0) \/ (low.diff > 0 /\ d.diff < 0)
             THEN RefineWindow(s, mode, planet, target_longitude, tol_jd, jd_low, mid,
                               low.calls, failAt)
             ELSE RefineWindow(s, mode, planet, target_longitude, tol_jd, mid, jd_high,
                               low.calls, failAt)

(* called with n swe calls already made; its first is swe.set_sid_mode *)
find_planetary_return(s, planet, target_longitude, jd_start, sidereal_mode, limit_days, tolerance_seconds, n, failAt) ==
    LET w == BroadSearch(s, sidereal_mode, planet, target_longitude, StepOf(planet),
                         limit_days, 0, jd_start, None, n + 1, failAt)
    IN  IF ~w.found
        THEN [res |-> w.res, calls |-> w.calls]
        ELSE RefineWindow(s, sidereal_mode, planet, target_longitude,
                          TolTicks(tolerance_seconds), w.jd_low, w.jd_high, w.calls, failAt)

TargetOfIngress(pos) ==
    LET next_lon == (SignOf(pos.longitude) + 1) * Deg(30)
        prev_lon == SignOf(pos.longitude) * Deg(30)
    IN  IF pos.speed_long >= 0
        THEN (IF next_lon >= Deg(360) THEN 0 ELSE next_lon)
        ELSE (IF prev_lon < 0 THEN Deg(330) ELSE prev_lon)

IngressAt(ingress_time, target_lon) ==
    IF ingress_time.res.kind # "ok"
    THEN ingress_time
    ELSE [res |-> Res("ok", ingress_time.res.val, 0, <<((target_lon \div Deg(30)) % 12) + 1>>),
          calls |-> ingress_time.calls]

find_next_ingress(s, planet, jd_start, sidereal_mode, failAt) ==
    Only({ IF pos.res.kind # "ok"
           THEN [res |-> pos.res, calls |-> pos.calls]
           ELSE Only({ IngressAt(find_planetary_return(s, planet, target_lon, jd_start,
                                     sidereal_mode,
                                     IF planet # PLUTO THEN HalfYear ELSE FortyYears, 1,
                                     calls, failAt),
                                 target_lon) :
                       target_lon \in {TargetOfIngress(pos)}, calls \in {pos.calls} }) :
           pos \in {calculate_planet(s, sidereal_mode, jd_start, planet, TRUE, 1, failAt)} })

----------------------------------------------------------------------------
(* CycleService.compute_return and _refine_return.  window_days is counted *)
(* in whole days; the samples are taken in whatever sidereal mode the      *)
(* engine is in.  The CycleEvent returned is its exact_time, with its      *)
(* error_margin as the one item.                                           *)

RECURSIVE RefineReturnLoop(_, _, _, _, _, _, _, _, _)
RefineReturnLoop(s, mode, planet, target_lon, k, low, high, n, failAt) ==
    IF k = 0
    THEN [res |-> Ok((low + high) \div 2), calls |-> n]
    ELSE LET mid == (low + high) \div 2
             pos == calculate_planet(s, mode, mid, planet, TRUE, n, failAt)
             diff == SignedOffset(pos.longitude, target_lon)
             low2 == IF diff > 0 THEN low ELSE mid
             high2 == IF diff > 0 THEN mid ELSE high
         IN  IF pos.res.kind # "ok"
             THEN [res |-> pos.res, calls |-> pos.calls]
             ELSE IF WithinTolerance(low2, high2)
             THEN [res |-> Ok((low2 + high2) \div 2), calls |-> pos.calls]
             ELSE RefineReturnLoop(s, mode, planet, target_lon, k - 1, low2, high2,
                                   pos.calls, failAt)

refine_return(s, mode, planet, target_lon, jd1, jd2, n, failAt) ==
    RefineReturnLoop(s, mode, planet, target_lon, RefineIterations, jd1, jd2, n, failAt)

SignFlip(last_diff, current_diff) ==
    (last_diff < 0 /\ current_diff >= 0) \/ (last_diff > 0 /\ current_diff <= 0)

RECURSIVE ReturnLoop(_, _, _, _, _, _, _, _, _)
ReturnLoop(s, mode, planet, target_long, current_jd, end_jd, last_diff, n, failAt) ==
    IF ~(current_jd < end_jd)
    THEN [res |-> Raised("Exception"), calls |-> n]
    ELSE LET next_jd == current_jd + HalfDay
             pos == calculate_planet(s, mode, next_jd, planet, TRUE, n, failAt)
             current_diff == SignedOffset(pos.longitude, target_long)
         IN  IF pos.res.kind # "ok"
             THEN [res |-> pos.res, calls |-> pos.calls]
             ELSE IF SignFlip(last_diff, current_diff)
             THEN LET exact == refine_return(s, mode, planet, target_long, current_jd,
                                             next_jd, pos.calls, failAt)
                  IN  IF exact.res.kind # "ok"
                      THEN exact
                      ELSE [res |-> Res("ok", exact.res.val, 0, <<Abs(current_diff)>>),
                            calls |-> exact.calls]
             ELSE ReturnLoop(s, mode, planet, target_long, next_jd, end_jd, current_diff,
                             pos.calls, failAt)

compute_return(s, mode, planet, target_long, jd_start, window_days, failAt) ==
    LET pos == calculate_planet(s, mode, jd_start, planet, TRUE, 0, failAt)
    IN  IF pos.res.kind # "ok"
        THEN [res |-> pos.res, calls |-> pos.calls]
        ELSE ReturnLoop(s, mode, planet, target_long, jd_start, jd_start + Days(window_days),
                        SignedOffset(pos.longitude, target_long), pos.calls, failAt)

----------------------------------------------------------------------------
(* NatalService.calculate_positions, without an observer (lat, lon None).  *)
(* With a sidereal mode its first swe call is swe.set_sid_mode.            *)

PlanetOrder == <<SUN, MOON, MERCURY, VENUS, MARS, JUPITER, SATURN, URANUS, NEPTUNE, PLUTO,
                 MEAN_NODE, TRUE_NODE, MEAN_NODE_OPP, CHIRON, CERES, PALLAS, JUNO, VESTA>>

RECURSIVE PositionsLoop(_, _, _, _, _, _, _, _)
PositionsLoop(s, mode, jd, is_sidereal, i, results, n, failAt) ==
    IF i > Len(PlanetOrder)
    THEN [res |-> OkList(results), calls |-> n]
    ELSE IF PlanetOrder[i] = MEAN_NODE_OPP
    THEN PositionsLoop(s, mode, jd, is_sidereal, i + 1, results, n, failAt)
    ELSE LET planet == PlanetOrder[i]
             data == calculate_planet(s, mode, jd, planet, is_sidereal, n, failAt)
             p == [planet |-> planet, longitude |-> data.longitude]
             ketu == [planet |-> MEAN_NODE_OPP,
                      longitude |-> (data.longitude + Deg(180)) % Circle]
         IN  IF data.res.kind # "ok"
             THEN [res |-> data.res, calls |-> data.calls]
             ELSE PositionsLoop(s, mode, jd, is_sidereal, i + 1,
                                IF planet = MEAN_NODE THEN results \o <<p, ketu>>
                                                      ELSE Append(results, p),
                                data.calls, failAt)

calculate_positions(s, mode, jd, sidereal_mode, failAt) ==
    PositionsLoop(s, IF sidereal_mode # None THEN sidereal_mode[1] ELSE mode, jd,
                  sidereal_mode # None, 1, <<>>,
                  IF sidereal_mode # None THEN 1 ELSE 0, failAt)

----------------------------------------------------------------------------
(* ParanService.find_parans.  swe.rise_trans is a synthetic table of the   *)
(* day: the event at position q of the scan (four per body) falls in slot  *)
(* 7q mod 41 after midnight, slots being tab.gap ticks apart, so that      *)
(* events far apart in the scan coincide or are neighbours in time.  The   *)
(* body tab.hidden neither rises nor sets (status -2); the engine raises   *)
(* for the bodies of tab.rejected.  The orb_minutes field of a pair is in  *)
(* units of 1/TicksPerDay minute.                                          *)

ToCheck(p) == p <= PLUTO \/ p = MOON

planets_to_check == SelectSeq(PlanetOrder, ToCheck)

EventTypes == <<"Rise", "Set", "Transit", "IC">>

Midnight(time) == (time \div TicksPerDay) * TicksPerDay

ScanPosition(planet, k) == 4 * (IF planet < 0 THEN PLUTO + 1 ELSE planet) + (k - 1)

(* Ephemeris.calculate_rise_set and calculate_transit, n swe calls made *)
rise_trans(tab, jd, planet, k, n, failAt) ==
    IF n + 1 = failAt \/ planet \in tab.rejected
    THEN [res |-> EngineError(n + 1), calls |-> n + 1, tret |-> None]
    ELSE IF planet = tab.hidden /\ k \in {1, 2}
    THEN [res |-> Ok(0), calls |-> n + 1, tret |-> None]
    ELSE [res |-> Ok(0), calls |-> n + 1,
          tret |-> Some(jd + 1 + ((7 * ScanPosition(planet, k)) % 41) * tab.gap)]

Truthy(r) == r # None /\ r # Some(0)

RECURSIVE CollectLoop(_, _, _, _, _, _, _)
CollectLoop(tab, jd, i, k, events, n, failAt) ==
    IF i > Len(planets_to_check)
    THEN [res |-> Ok(0), calls |-> n, events |-> events]
    ELSE LET r == rise_trans(tab, jd, planets_to_check[i], k, n, failAt)
             events2 == IF Truthy(r.tret)
                        THEN Append(events, [planet |-> planets_to_check[i],
                                             type |-> EventTypes[k], jd |-> r.tret[1]])
                        ELSE events
         IN  IF r.res.kind # "ok"
             THEN [res |-> r.res, calls |-> r.calls, events |-> events]
             ELSE IF k < Len(EventTypes)
             THEN CollectLoop(tab, jd, i, k + 1, events2, r.calls, failAt)
             ELSE CollectLoop(tab, jd, i + 1, 1, events2, r.calls, failAt)

(* abs(e1["jd"] - e2["jd"]) <= orb_minutes / (24 * 60) *)
WithinOrb_Signed(jd1, jd2, orb_minutes) == (jd1 - jd2) * 1440 <= orb_minutes * TicksPerDay

WithinOrb(jd1, jd2, orb_minutes) == Abs(jd1 - jd2) * 1440 <= orb_minutes * TicksPerDay

Paran(e1, e2) ==
    [p1 |-> e1.planet, type1 |-> e1.type, p2 |-> e2.planet, type2 |-> e2.type,
     time |-> (e1.jd + e2.jd) \div 2, orb_minutes |-> Abs(e1.jd - e2.jd) * 1440]

(* for j in range(i + 1, len(events)) *)
InnerStart_Same(i) == i

InnerStart(i) == i + 1

(* the pairs appended to results from (i, j) on, in the order of the appends *)
RECURSIVE InnerLoop(_, _, _, _)
InnerLoop(events, orb_minutes, i, j) ==
    IF j > Len(events)
    THEN <<>>
    ELSE (IF WithinOrb(events[i].jd, events[j].jd, orb_minutes)
          THEN <<Paran(events[i], events[j])>>
          ELSE <<>>) \o InnerLoop(events, orb_minutes, i, j + 1)

RECURSIVE OuterLoop(_, _, _)
OuterLoop(events, orb_minutes, i) ==
    IF i > Len(events)
    THEN <<>>
    ELSE InnerLoop(events, orb_minutes, i, InnerStart(i)) \o OuterLoop(events, orb_minutes, i + 1)

find_parans(tab, time, orb_minutes, failAt) ==
    Only({ IF c.res.kind # "ok"
           THEN [res |-> c.res, calls |-> c.calls]
           ELSE [res |-> OkList(OuterLoop(c.events, orb_minutes, 1)), calls |-> c.calls] :
           c \in {CollectLoop(tab, Midnight(time), 1, 1, <<>>, 0, failAt)} })

----------------------------------------------------------------------------
(* HeliacalService.find_all_stations.  The year is year_days days long and *)
(* ends a minute before its last midnight; the search for each station is  *)
(* given as many days as the year has (365 in the source).                 *)

SkipDays == 5

(* the n swe calls made before a search are not counted by the search *)
After(n, failAt) == IF failAt > n THEN failAt - n ELSE 0

StationType(speed_before) ==
    IF speed_before > 0 THEN "Retrograde Station" ELSE "Direct Station"

(* station_jd > end_jd *)
PastEnd_Never(station_jd, end_jd) == FALSE

PastEnd(station_jd, end_jd) == station_jd > end_jd

RECURSIVE AllStationsLoop(_, _, _, _, _, _, _, _, _)
AllStationsLoop(s, mode, planet, max_days, current_jd, end_jd, results, n, failAt) ==
    IF ~(current_jd < end_jd)
    THEN [res |-> OkList(results), calls |-> n]
    ELSE Only({
        IF st.res.kind \notin {"ok", "None"}
        THEN [res |-> EngineError(n + st.calls), calls |-> n + st.calls]
        ELSE IF st.res.kind = "None" \/ PastEnd(st.res.val, end_jd)
        THEN [res |-> OkList(results), calls |-> n + st.calls]
        ELSE Only({
            IF before.res.kind # "ok"
            THEN [res |-> before.res, calls |-> before.calls]
            ELSE Only({
                IF after.res.kind # "ok"
                THEN [res |-> after.res, calls |-> after.calls]
                ELSE AllStationsLoop(s, mode, planet, max_days,
                         st.res.val + Days(SkipDays), end_jd,
                         Append(results, [jd |-> st.res.val,
                                          type |-> StationType(before.speed_long)]),
                         after.calls, failAt) :
                after \in {calculate_planet(s, mode, st.res.val + TicksPerDay \div 100,
                                            planet, TRUE, before.calls, failAt)} }) :
            before \in {calculate_planet(s, mode, st.res.val - TicksPerDay \div 100,
                                         planet, TRUE, n + st.calls, failAt)} }) :
        st \in {calculate_stationary_point(s, mode, current_jd, planet, TRUE, max_days,
                                           After(n, failAt))} })

find_all_stations(s, mode, planet, year_start, year_days, failAt) ==
    AllStationsLoop(s, mode, planet, year_days, year_start,
                    year_start + Days(year_days) - TicksPerDay \div 1440, <<>>, 0, failAt)

----------------------------------------------------------------------------
(* The caller's steps *)

StartTicks == {0, Days(1)}
Skies ==
    [lon0 : {Deg(40), Deg(43) + 4321}, dir : {1, -1},
     root : {Days(1), Days(2) + 12345, Days(30)}, period : {0}]
    \cup {[lon0 |-> Deg(40), dir |-> 1, root |-> Days(3), period |-> Days(3)],
          [lon0 |-> Deg(43) + 4321, dir |-> -1, root |-> Days(2) + 12345,
           period |-> Days(7) + 54321]}
FailAts == 0..MaxFailAt

Finish(o, out) ==
    /\ pc[Caller] = "idle"
    /\ op' = [op EXCEPT ![Caller] = o]
    /\ pc' = [pc EXCEPT ![Caller] = "done"]
    /\ result' = [result EXCEPT ![Caller] = out.res]
    /\ nCalls' = [nCalls EXCEPT ![Caller] = out.calls]
    /\ prior' = Config
    /\ UNCHANGED <<lockVars, left, sky, classVars, sampled>>

SelectMode(mode) ==
    /\ eph_sidereal_mode' = mode
    /\ swe_sid_mode' = mode
    /\ UNCHANGED <<swe_topo, swe_tid_acc>>

Caller_Start ==
    /\ \E o \in LightOps : Begin(Caller, o)
    /\ prior' = Config
    /\ UNCHANGED <<sky, classVars, sampled>>

Caller_End ==
    /\ Finished(Caller)
    /\ prior' = Config
    /\ UNCHANGED <<sky, classVars, sampled>>

Caller_CalculateStationaryPoint ==
    \E jd_start \in StartTicks, planet \in {SUN, MOON, MERCURY, MEAN_NODE_OPP},
       forward \in BOOLEAN, max_days \in 0..MaxDaysBound, failAt \in FailAts :
        /\ pc[Caller] = "idle"
        /\ \E out \in {calculate_stationary_point(sky, swe_sid_mode, jd_start, planet,
                                                  forward, max_days, failAt)} :
            /\ Finish([name |-> "calculate_stationary_point", jd_start |-> jd_start,
                       planet |-> planet, forward |-> forward, max_days |-> max_days,
                       failAt |-> failAt], out)
            /\ nLocks' = [nLocks EXCEPT ![Caller] = out.calls]
            /\ UNCHANGED engineVars

EclipseEnds == {None} \cup {Some(d * e) : d \in {1, -1},
                             e \in {2, 2 * MAX_SEARCH_DAYS, 2 * MAX_SEARCH_DAYS + 1}}

Caller_SearchEclipse ==
    \E which \in {"search_solar_eclipse", "search_lunar_eclipse"}, jd_start \in {0, 3},
       jd_end \in EclipseEnds, backward \in BOOLEAN, failAt \in FailAts :
        /\ pc[Caller] = "idle"
        /\ \E out \in {IF which = "search_solar_eclipse"
                       THEN search_solar_eclipse(jd_start, jd_end, backward, failAt)
                       ELSE search_lunar_eclipse(jd_start, jd_end, backward, failAt)} :
            /\ Finish([name |-> which, jd_start |-> jd_start, jd_end |-> jd_end,
                       backward |-> backward, failAt |-> failAt], out)
            /\ nLocks' = [nLocks EXCEPT ![Caller] = out.calls]
            /\ UNCHANGED engineVars

Caller_CalculateHouses ==
    \E lat \in {45, 89}, system \in {PLACIDUS, KOCH, PORPHYRY, EQUAL},
       sidereal \in BOOLEAN, failAt \in FailAts :
        /\ pc[Caller] = "idle"
        /\ \E out \in {Ephemeris_calculate_houses(lat, system, sidereal, 0, failAt)} :
            /\ Finish([name |-> "Ephemeris.calculate_houses", lat |-> lat, system |-> system,
                       sidereal |-> sidereal, failAt |-> failAt], out)
            /\ nLocks' = [nLocks EXCEPT ![Caller] = 1]
            /\ UNCHANGED engineVars

Caller_NatalCalculateHouses ==
    \E lat \in {45, 89}, system \in {PLACIDUS, KOCH, PORPHYRY, EQUAL},
       sidereal_mode \in SiderealModes, failAt \in FailAts :
        /\ pc[Caller] = "idle"
        /\ \E out \in {NatalService_calculate_houses(lat, system, failAt)} :
            /\ Finish([name |-> "NatalService.calculate_houses", lat |-> lat,
                       system |-> system, sidereal_mode |-> sidereal_mode,
                       failAt |-> failAt], out)
            /\ nLocks' = [nLocks EXCEPT ![Caller] =
                             IF out.res.swe_error # 0 /\ system \in {PLACIDUS, KOCH} THEN 3 ELSE 2]
            /\ SelectMode(sidereal_mode)

ScanEnds == {-2, 3, 6, 2 * MAX_SEARCH_DAYS + 1}

Caller_Scan ==
    \E which \in {"scan_ingresses", "scan_stations"}, planet \in {SUN, MERCURY},
       end \in ScanEnds, sidereal_mode \in SiderealModes, failAt \in FailAts :
        /\ pc[Caller] = "idle"
        /\ \E out \in {IF which = "scan_ingresses"
                       THEN scan_ingresses(sky, planet, 0, end, Days(1), sidereal_mode, failAt)
                       ELSE scan_stations(sky, planet, 0, end, Days(1), sidereal_mode, failAt)} :
            /\ Finish([name |-> which, planet |-> planet, start |-> 0, end |-> end,
                       sidereal_mode |-> sidereal_mode, failAt |-> failAt], out)
            /\ nLocks' = [nLocks EXCEPT ![Caller] = out.calls]
            /\ SelectMode(sidereal_mode)

Caller_FindPlanetaryReturn ==
    \E planet \in {MOON, MERCURY}, target_longitude \in {Deg(30), Deg(350)},
       jd_start \in StartTicks, sidereal_mode \in SiderealModes,
       limit_days \in {8, 32}, failAt \in FailAts :
        /\ pc[Caller] = "idle"
        /\ \E out \in {find_planetary_return(sky, planet, target_longitude, jd_start,
                                             sidereal_mode, limit_days, 1, 0, failAt)} :
            /\ Finish([name |-> "find_planetary_return", planet |-> planet,
                       target_longitude |-> target_longitude, jd_start |-> jd_start,
                       sidereal_mode |-> sidereal_mode, limit_days |-> limit_days,
                       failAt |-> failAt], out)
            /\ nLocks' = [nLocks EXCEPT ![Caller] = out.calls]
            /\ SelectMode(sidereal_mode)

Caller_FindNextIngress ==
    \E planet \in {SUN, MERCURY}, jd_start \in StartTicks,
       sidereal_mode \in SiderealModes, failAt \in FailAts :
        /\ pc[Caller] = "idle"
        /\ \E out \in {find_next_ingress(sky, planet, jd_start, sidereal_mode, failAt)} :
            /\ Finish([name |-> "find_next_ingress", planet |-> planet, jd_start |-> jd_start,
                       sidereal_mode |-> sidereal_mode, failAt |-> failAt], out)
            /\ nLocks' = [nLocks EXCEPT ![Caller] = out.calls]
            /\ SelectMode(sidereal_mode)

Caller_CalculatePositions ==
    \E jd \in StartTicks, sidereal_mode \in Opt(SiderealModes), failAt \in FailAts :
        /\ pc[Caller] = "idle"
        /\ \E out \in {calculate_positions(sky, swe_sid_mode, jd, sidereal_mode, failAt)} :
            /\ Finish([name |-> "NatalService.calculate_positions", jd |-> jd,
                       sidereal_mode |-> sidereal_mode, failAt |-> failAt], out)
            /\ nLocks' = [nLocks EXCEPT ![Caller] = out.calls]
            /\ IF sidereal_mode # None
               THEN SelectMode(sidereal_mode[1])
               ELSE UNCHANGED engineVars

Caller_ComputeReturn ==
    \E planet \in {SUN, MERCURY}, target_long \in {Deg(30), Deg(200), Deg(350)},
       jd_start \in StartTicks, window_days \in {1, 3}, failAt \in FailAts :
        /\ pc[Caller] = "idle"
        /\ \E out \in {compute_return(sky, swe_sid_mode, planet, target_long, jd_start,
                                      window_days, failAt)} :
            /\ Finish([name |-> "compute_return", planet |-> planet,
                       target_long |-> target_long, jd_start |-> jd_start,
                       window_days |-> window_days, failAt |-> failAt], out)
            /\ nLocks' = [nLocks EXCEPT ![Caller] = out.calls]
            /\ UNCHANGED engineVars

(* the signed offset of get_diff and compute_return, on given longitudes *)
Longitudes == {0, Deg(10), Deg(180), Deg(190), Circle - 1}

Caller_SignedOffset ==
    \E actual \in Longitudes, target \in Longitudes :
        /\ Finish([name |-> "signed_offset", actual |-> actual, target |-> target],
                  [res |-> Ok(SignedOffset(actual, target)), calls |-> 0])
        /\ nLocks' = [nLocks EXCEPT ![Caller] = 0]
        /\ UNCHANGED engineVars

RiseTables ==
    [gap : {TicksPerDay \div 1440, (TicksPerDay \div 1440) + 1},
     hidden : {MOON, VESTA}, rejected : {{}, {MEAN_NODE_OPP}}]

Caller_FindParans ==
    \E tab \in RiseTables, time \in {HalfDay, Days(1) + HalfDay}, orb_minutes \in {0, 1},
       failAt \in FailAts :
        /\ pc[Caller] = "idle"
        /\ \E out \in {find_parans(tab, time, orb_minutes, failAt)} :
            /\ Finish([name |-> "find_parans", time |-> time, lat |-> 45, lon |-> 12,
                       orb_minutes |-> orb_minutes, table |-> tab, failAt |-> failAt], out)
            /\ nLocks' = [nLocks EXCEPT ![Caller] = out.calls]
            /\ UNCHANGED engineVars

Caller_FindAllStations ==
    \E planet \in {SUN, MERCURY}, year_start \in StartTicks, year_days \in 1..MaxYearDays,
       failAt \in FailAts :
        /\ pc[Caller] = "idle"
        /\ \E out \in {find_all_stations(sky, swe_sid_mode, planet, year_start, year_days, failAt)} :
            /\ Finish([name |-> "find_all_stations", planet |-> planet,
                       year_start |-> year_start, year_days |-> year_days,
                       failAt |-> failAt], out)
            /\ nLocks' = [nLocks EXCEPT ![Caller] = out.calls]
            /\ UNCHANGED engineVars

Caller_GetFixedStarMagnitude ==
    \E failAt \in FailAts :
        /\ pc[Caller] = "idle"
        /\ \E out \in {get_fixed_star_magnitude(failAt)} :
            /\ Finish([name |-> "get_fixed_star_magnitude", failAt |-> failAt], out)
            /\ nLocks' = [nLocks EXCEPT ![Caller] = 1]
            /\ UNCHANGED engineVars

(* EphemerisContext.__enter__ and __exit__ as what they do to the engine's *)
(* configuration *)
Entered(cfg, ctx) ==
    [sid |-> IF ctx.sid_mode # None THEN ctx.sid_mode[1] ELSE cfg.sid,
     topo |-> IF ctx.topo # None THEN ctx.topo[1] ELSE cfg.topo,
     tid |-> IF ctx.tidal # None THEN ctx.tidal[1] ELSE cfg.tid]

Exited(cfg, ctx) ==
    [sid |-> IF ctx.sid_mode # None THEN LAHIRI ELSE cfg.sid,
     topo |-> IF ctx.topo # None THEN Geocentric ELSE cfg.topo,
     tid |-> IF ctx.tidal # None THEN TIDAL_AUTOMATIC ELSE cfg.tid]

(* a sample of the block, the n-th call of the engine, under the configuration cfg *)
BlockSample(s, cfg, planet, n, failAt) ==
    LET pos == calculate_planet(s, cfg.sid, 0, planet, TRUE, n, failAt)
    IN  [res |-> pos.res, mode |-> cfg.sid, longitude |-> pos.longitude]

(* with outer: sample; with inner: sample; sample                          *)
(* a sample that raises leaves the blocks it is in through their __exit__  *)
nested_contexts(s, cfg, outer, inner, planet, failAt) ==
    LET c1 == Entered(cfg, outer)
        s1 == BlockSample(s, c1, planet, 0, failAt)
        c2 == Entered(c1, inner)
        s2 == BlockSample(s, c2, planet, 1, failAt)
        c3 == Exited(c2, inner)
        s3 == BlockSample(s, c3, planet, 2, failAt)
    IN  IF s1.res.kind # "ok"
        THEN [res |-> s1.res, calls |-> 1, cfg |-> Exited(c1, outer)]
        ELSE IF s2.res.kind # "ok"
        THEN [res |-> s2.res, calls |-> 2, cfg |-> Exited(c3, outer)]
        ELSE IF s3.res.kind # "ok"
        THEN [res |-> s3.res, calls |-> 3, cfg |-> Exited(c3, outer)]
        ELSE [res |-> OkList(<<[mode |-> s1.mode, longitude |-> s1.longitude],
                               [mode |-> s2.mode, longitude |-> s2.longitude],
                               [mode |-> s3.mode, longitude |-> s3.longitude]>>),
              calls |-> 3, cfg |-> Exited(c3, outer)]

Overrides == [sid_mode : Opt(SiderealModes), topo : {None}, tidal : Opt(TidalValues)]

Caller_NestedContexts ==
    \E outer \in Overrides, inner \in Overrides, failAt \in {0, 1, 3} :
        /\ pc[Caller] = "idle"
        /\ \E out \in {nested_contexts(sky, Config, outer, inner, MERCURY, failAt)} :
            /\ Finish([name |-> "nested EphemerisContext", outer |-> outer, inner |-> inner,
                       planet |-> MERCURY, failAt |-> failAt], out)
            /\ nLocks' = [nLocks EXCEPT ![Caller] = out.calls]
            /\ swe_sid_mode' = out.cfg.sid
            /\ swe_topo' = out.cfg.topo
            /\ swe_tid_acc' = out.cfg.tid
            /\ UNCHANGED eph_sidereal_mode

InitSeq ==
    /\ SWISS_LOCK = [owner |-> NoThread, count |-> 0]
    /\ state_lock = NoThread
    /\ swe_sid_mode = LAHIRI
    /\ swe_topo = Geocentric
    /\ swe_tid_acc = TIDAL_AUTOMATIC
    /\ eph_sidereal_mode = LAHIRI
    /\ pc = [t \in Threads |-> "idle"]
    /\ op = [t \in Threads |-> IdleOp]
    /\ left = [t \in Threads |-> 0]
    /\ result = [t \in Threads |-> NoResult]
    /\ nCalls = [t \in Threads |-> 0]
    /\ nLocks = [t \in Threads |-> 0]
    /\ prior = [sid |-> LAHIRI, topo |-> Geocentric, tid |-> TIDAL_AUTOMATIC]
    /\ sky \in Skies
    /\ sampled = None
    /\ Constructed

NextSeq ==
    \/ Caller_Start
    \/ Caller_End
    \/ Running(Caller)
    \/ Caller_CalculateStationaryPoint
    \/ Caller_SearchEclipse
    \/ Caller_CalculateHouses
    \/ Caller_NatalCalculateHouses
    \/ Caller_GetFixedStarMagnitude
    \/ Caller_Scan
    \/ Caller_FindPlanetaryReturn
    \/ Caller_FindNextIngress
    \/ Caller_CalculatePositions
    \/ Caller_ComputeReturn
    \/ Caller_SignedOffset
    \/ Caller_FindParans
    \/ Caller_FindAllStations
    \/ Caller_NestedContexts

SpecSeq == InitSeq /\ [][NextSeq]_vars

----------------------------------------------------------------------------
(* The loops of the finders, one iteration a step: the coarse discovery    *)
(* (pc "coarse") and the bisection of the bracket it finds (pc "refine").   *)
(* op[Caller] holds the loops' variables: current_jd, end_jd, the step, the *)
(* last sample (None before the first), the iteration's index i, the limit  *)
(* of find_planetary_return (eighths of a day) or of the range() of         *)
(* calculate_stationary_point (days), the events found so far, the engine   *)
(* calls made, counted up to MaxFailAt; of the bisection the bracket low,   *)
(* high, its first width width0, the iterations run k (counted up to        *)
(* RefineIterations, the largest budget), the tolerance tol                 *)
(* (ticks) and the sample cur of the coarse iteration that found the        *)
(* bracket.  Windows and steps of the scans are in half-days.               *)

Scans == {"scan_ingresses", "scan_stations"}
Finders == Scans \cup {"find_planetary_return", "compute_return", "calculate_stationary_point"}

(* a body that does not move: zero relative motion to any target *)
StillSky == [lon0 |-> Deg(40), dir |-> 0, root |-> Days(2), period |-> 0]

Counted(n) == IF n < MaxFailAt THEN n + 1 ELSE n

(* what the finder looks at in a sample *)
Sampled(o, s, jd) ==
    LET pos == calculate_planet(s, o.mode, jd, o.planet, TRUE, o.calls, o.failAt)
    IN  [res |-> pos.res,
         v |-> IF o.name = "scan_ingresses" THEN SignOf(pos.longitude)
               ELSE IF o.name \in {"scan_stations", "calculate_stationary_point"}
               THEN pos.speed_long
               ELSE SignedOffset(pos.longitude, o.target)]

(* the while / for condition *)
CoarseMore(o) ==
    IF o.name = "find_planetary_return" THEN BeforeLimit(o.i, StepOf(o.planet), o.limit)
    ELSE IF o.name = "calculate_stationary_point" THEN o.i < o.limit
    ELSE o.current_jd < o.end_jd

(* where the iteration samples *)
SampleAt(o) ==
    IF o.name \in Scans THEN Min(o.current_jd + o.step, o.end_jd)
    ELSE IF o.name = "find_planetary_return" THEN o.current_jd
    ELSE o.current_jd + o.step

(* the sign change the finder looks for *)
Changed(o, v) ==
    IF o.last = None THEN FALSE
    ELSE IF o.name = "scan_ingresses" THEN v # o.last[1]
    ELSE IF o.name = "scan_stations" THEN Reversed(o.last[1], v)
    ELSE IF o.name = "calculate_stationary_point" THEN o.last[1] * v <= 0
    ELSE IF o.name = "find_planetary_return" THEN Crossed(o.last[1], v)
    ELSE SignFlip(o.last[1], v)

(* the loop's variables after an iteration that does not leave the loop *)
Advanced(o, v) ==
    [o EXCEPT !.current_jd = IF o.name = "find_planetary_return"
                             THEN o.current_jd + StepTicks(StepOf(o.planet))
                             ELSE SampleAt(o),
              !.last = Some(v),
              !.i = IF o.name \in {"find_planetary_return", "calculate_stationary_point"}
                    THEN o.i + 1 ELSE o.i,
              !.found = IF Changed(o, v) THEN o.found + 1 ELSE o.found,
              !.calls = Counted(o.calls)]

(* what the finder gives when the loop ends without a bracket *)
Exhausted(o) ==
    IF o.name \in Scans THEN Ok(o.found)
    ELSE IF o.name = "find_planetary_return" THEN Raised("EphemerisError")
    ELSE IF o.name = "compute_return" THEN Raised("Exception")
    ELSE NotFound

CoarseLeave(out) ==
    /\ pc' = [pc EXCEPT ![Caller] = "done"]
    /\ result' = [result EXCEPT ![Caller] = out]

CoarseEnter(o, first) ==
    /\ pc[Caller] = "idle"
    /\ prior' = Config
    /\ UNCHANGED <<lockVars, left, sky, classVars, sampled, nLocks, nCalls>>
    /\ IF first /\ Sampled(o, sky, o.current_jd).res.kind # "ok"
       THEN /\ op' = [op EXCEPT ![Caller] = o]
            /\ CoarseLeave(Sampled(o, sky, o.current_jd).res)
       ELSE /\ op' = [op EXCEPT ![Caller] =
                        IF first
                        THEN [o EXCEPT !.last = Some(Sampled(o, sky, o.current_jd).v),
                                       !.calls = Counted(o.calls)]
                        ELSE o]
            /\ pc' = [pc EXCEPT ![Caller] = "coarse"]
            /\ UNCHANGED result

Loop(name, planet, mode, target, jd, end_jd, step, limit, failAt) ==
    [name |-> name, planet |-> planet, mode |-> mode, target |-> target, current_jd |-> jd,
     end_jd |-> end_jd, step |-> step, limit |-> limit, failAt |-> failAt, last |-> None,
     i |-> 0, found |-> 0, calls |-> 0, low |-> 0, high |-> 0, width0 |-> 0, k |-> 0,
     tol |-> 0, cur |-> 0]

CoarseSteps == {0, 1, 2}          \* step_days of a scan, in half-days
CoarseEnds  == {-2, 3, 4, 2 * MAX_SEARCH_DAYS + 1}
Tolerances  == {-1, 0, 1, 3600}   \* tolerance_seconds of find_planetary_return

Coarse_Scan ==
    \E which \in Scans, planet \in {SUN, MERCURY}, end \in CoarseEnds, step \in CoarseSteps,
       sidereal_mode \in SiderealModes, failAt \in FailAts :
        /\ SelectMode(sidereal_mode)
        /\ IF (end - 0) > 2 * MAX_SEARCH_DAYS
           THEN /\ pc[Caller] = "idle"
                /\ op' = [op EXCEPT ![Caller] =
                            Loop(which, planet, sidereal_mode, 0, 0, 0, step * HalfDay, 0, failAt)]
                /\ CoarseLeave(Raised("SearchRangeTooLargeError"))
                /\ prior' = Config
                /\ UNCHANGED <<lockVars, left, sky, classVars, sampled, nLocks, nCalls>>
           ELSE CoarseEnter(Loop(which, planet, sidereal_mode, 0, 0, end * HalfDay,
                                 step * HalfDay, 0, failAt), TRUE)

Coarse_FindPlanetaryReturn ==
    \E planet \in {SUN, MOON, MERCURY}, target \in {Deg(17), Deg(40)},
       limit_days \in {0, 8, 20}, tolerance_seconds \in Tolerances,
       sidereal_mode \in SiderealModes, failAt \in FailAts :
        /\ SelectMode(sidereal_mode)
        /\ CoarseEnter([Loop("find_planetary_return", planet, sidereal_mode, target, 0, 0, 0,
                             limit_days, failAt) EXCEPT !.tol = TolTicks(tolerance_seconds)],
                       FALSE)

Coarse_ComputeReturn ==
    \E planet \in {SUN, MERCURY}, target \in {Deg(17), Deg(40)}, window_days \in 0..MaxDaysBound,
       failAt \in FailAts :
        /\ UNCHANGED engineVars
        /\ CoarseEnter(Loop("compute_return", planet, swe_sid_mode, target, 0,
                            Days(window_days), HalfDay, 0, failAt), TRUE)

Coarse_CalculateStationaryPoint ==
    \E planet \in {SUN, MERCURY}, forward \in BOOLEAN, max_days \in 0..MaxDaysBound,
       failAt \in FailAts :
        /\ UNCHANGED engineVars
        /\ IF NeverStations(planet)
           THEN /\ pc[Caller] = "idle"
                /\ op' = [op EXCEPT ![Caller] =
                            Loop("calculate_stationary_point", planet, swe_sid_mode, 0, Days(4),
                                 0, 0, max_days, failAt)]
                /\ CoarseLeave(NotFound)
                /\ prior' = Config
                /\ UNCHANGED <<lockVars, left, sky, classVars, sampled, nLocks, nCalls>>
           ELSE CoarseEnter(Loop("calculate_stationary_point", planet, swe_sid_mode, 0, Days(4),
                                 0, IF forward THEN Days(1) ELSE -Days(1), max_days, failAt),
                            TRUE)

(* the bracket the coarse iteration hands to the bisection *)
Bracketed(o, v) ==
    LET jd == SampleAt(o)
        b == IF o.name \in Scans \/ o.name = "compute_return"
             THEN [low |-> o.current_jd, high |-> jd]
             ELSE IF o.name = "find_planetary_return"
             THEN [low |-> jd - StepTicks(StepOf(o.planet)), high |-> jd]
             ELSE [low |-> jd - o.step, high |-> jd]
    IN  [o EXCEPT !.low = b.low, !.high = b.high, !.width0 = Abs(b.high - b.low), !.k = 0,
                  !.cur = v, !.calls = Counted(o.calls),
                  !.target = IF o.name = "scan_ingresses"
                             THEN (IF o.last[1] = 11 /\ v = 0 THEN 0 ELSE v * Deg(30))
                             ELSE o.target]

(* _refine_station samples jd1 before its loop *)
RefineEnter(o) ==
    IF o.name = "scan_stations"
    THEN \E pos1 \in {calculate_planet(sky, o.mode, o.low, o.planet, TRUE, o.calls, o.failAt)} :
            IF pos1.res.kind # "ok"
            THEN CoarseLeave(pos1.res) /\ UNCHANGED op
            ELSE /\ op' = [op EXCEPT ![Caller] = [o EXCEPT !.last = Some(pos1.speed_long),
                                                           !.calls = Counted(o.calls)]]
                 /\ pc' = [pc EXCEPT ![Caller] = "refine"]
                 /\ UNCHANGED result
    ELSE /\ op' = [op EXCEPT ![Caller] = o]
         /\ pc' = [pc EXCEPT ![Caller] = "refine"]
         /\ UNCHANGED result

(* one iteration of the coarse loop *)
Coarse_Step ==
    /\ pc[Caller] = "coarse"
    /\ CoarseMore(op[Caller])
    /\ \E o \in {op[Caller]} : \E smp \in {Sampled(o, sky, SampleAt(o))} :
          IF smp.res.kind # "ok"
          THEN CoarseLeave(smp.res) /\ UNCHANGED op
          ELSE IF Changed(o, smp.v)
          THEN RefineEnter(Bracketed(o, smp.v))
          ELSE /\ op' = [op EXCEPT ![Caller] = Advanced(o, smp.v)]
               /\ UNCHANGED <<pc, result>>
    /\ prior' = Config
    /\ UNCHANGED <<lockVars, engineVars, left, sky, classVars, sampled, nLocks, nCalls>>

(* the loop's condition is false *)
Coarse_Exit ==
    /\ pc[Caller] = "coarse"
    /\ ~CoarseMore(op[Caller])
    /\ CoarseLeave(Exhausted(op[Caller]))
    /\ prior' = Config
    /\ UNCHANGED <<lockVars, engineVars, left, sky, classVars, sampled, nLocks, nCalls, op>>

(* what the bisection looks at in a sample *)
RefineSampled(o, s, jd) ==
    LET pos == calculate_planet(s, o.mode, jd, o.planet, TRUE, o.calls, o.failAt)
    IN  [res |-> pos.res,
         v |-> IF o.name \in {"scan_stations", "calculate_stationary_point"}
               THEN pos.speed_long
               ELSE SignedOffset(pos.longitude, o.target)]

(* the bisection's while / for condition *)
Budget(o) == IF o.name = "calculate_stationary_point" THEN StationIterations ELSE RefineIterations

Bisecting(o) ==
    IF o.name = "find_planetary_return" THEN (o.high - o.low) > o.tol ELSE o.k < Budget(o)

(* the bracket after the iteration that sampled v at mid (low_v at low) *)
Narrowed(o, mid, v, low_v) ==
    IF o.name = "find_planetary_return"
    THEN IF (low_v < 0 /\ v > 0) \/ (low_v > 0 /\ v < 0)
         THEN [o EXCEPT !.high = mid] ELSE [o EXCEPT !.low = mid]
    ELSE IF o.name = "scan_stations"
    THEN IF SameDirection(o.last[1], v)
         THEN [o EXCEPT !.low = mid, !.last = Some(v)] ELSE [o EXCEPT !.high = mid]
    ELSE IF o.name = "calculate_stationary_point"
    THEN IF o.last[1] * v <= 0
         THEN [o EXCEPT !.high = mid] ELSE [o EXCEPT !.low = mid, !.last = Some(v)]
    ELSE IF v > 0 THEN [o EXCEPT !.high = mid] ELSE [o EXCEPT !.low = mid]

(* if abs(high - low) < tolerance: break *)
Breaks(o) ==
    /\ o.name \notin {"find_planetary_return", "calculate_stationary_point"}
    /\ WithinTolerance(o.low, o.high)

(* the bisection is over: a scan goes on with its coarse loop *)
RefineLeave(o) ==
    IF o.name \in Scans
    THEN /\ op' = [op EXCEPT ![Caller] =
                     [o EXCEPT !.current_jd = SampleAt(o), !.last = Some(o.cur),
                               !.found = o.found + 1]]
         /\ pc' = [pc EXCEPT ![Caller] = "coarse"]
         /\ UNCHANGED result
    ELSE /\ op' = [op EXCEPT ![Caller] = o]
         /\ CoarseLeave(Ok((o.low + o.high) \div 2))

(* one iteration of the bisection *)
Refine_Step ==
    /\ pc[Caller] = "refine"
    /\ Bisecting(op[Caller])
    /\ \E o \in {op[Caller]} : \E mid \in {(o.low + o.high) \div 2} :
       \E smp \in {RefineSampled(o, sky, mid)} :
       \E low_smp \in {RefineSampled([o EXCEPT !.calls = Counted(o.calls)], sky, o.low)} :
          IF smp.res.kind # "ok"
          THEN CoarseLeave(smp.res) /\ UNCHANGED op
          ELSE IF o.name = "find_planetary_return" /\ low_smp.res.kind # "ok"
          THEN CoarseLeave(low_smp.res) /\ UNCHANGED op
          ELSE \E o2 \in {[Narrowed(o, mid, smp.v, low_smp.v) EXCEPT
                               !.k = IF o.k < RefineIterations THEN o.k + 1 ELSE o.k,
                               !.calls = IF o.name = "find_planetary_return"
                                         THEN Counted(Counted(o.calls))
                                         ELSE Counted(o.calls)]} :
                  IF Breaks(o2)
                  THEN RefineLeave(o2)
                  ELSE /\ op' = [op EXCEPT ![Caller] = o2]
                       /\ UNCHANGED <<pc, result>>
    /\ prior' = Config
    /\ UNCHANGED <<lockVars, engineVars, left, sky, classVars, sampled, nLocks, nCalls>>

(* the bisection's condition is false *)
Refine_Exit ==
    /\ pc[Caller] = "refine"
    /\ ~Bisecting(op[Caller])
    /\ RefineLeave(op[Caller])
    /\ prior' = Config
    /\ UNCHANGED <<lockVars, engineVars, left, sky, classVars, sampled, nLocks, nCalls>>

InitLoops ==
    /\ SWISS_LOCK = [owner |-> NoThread, count |-> 0]
    /\ state_lock = NoThread
    /\ swe_sid_mode = LAHIRI
    /\ swe_topo = Geocentric
    /\ swe_tid_acc = TIDAL_AUTOMATIC
    /\ eph_sidereal_mode = LAHIRI
    /\ pc = [t \in Threads |-> "idle"]
    /\ op = [t \in Threads |-> IdleOp]
    /\ left = [t \in Threads |-> 0]
    /\ result = [t \in Threads |-> NoResult]
    /\ nCalls = [t \in Threads |-> 0]
    /\ nLocks = [t \in Threads |-> 0]
    /\ prior = [sid |-> LAHIRI, topo |-> Geocentric, tid |-> TIDAL_AUTOMATIC]
    /\ sky \in Skies \cup {StillSky}
    /\ sampled = None
    /\ Constructed

NextLoops ==
    \/ Coarse_Scan
    \/ Coarse_FindPlanetaryReturn
    \/ Coarse_ComputeReturn
    \/ Coarse_CalculateStationaryPoint
    \/ Coarse_Step
    \/ Coarse_Exit
    \/ Refine_Step
    \/ Refine_Exit
    \/ Caller_End

(* the interpreter runs the loop on: an iteration that can be taken is taken *)
SpecLoops ==
    /\ InitLoops /\ [][NextLoops]_vars
    /\ WF_vars(Coarse_Step) /\ WF_vars(Coarse_Exit)
    /\ WF_vars(Refine_Step) /\ WF_vars(Refine_Exit)

----------------------------------------------------------------------------
(* Concurrent finders.  To the lock a root finder is a call of             *)
(* set_sidereal_mode followed by its samples, calculate_planet calls that  *)
(* take and release _SWISS_LOCK one by one; left[t] counts the samples the *)
(* finder still takes.                                                     *)

OpFinder == [name : {"find_planetary_return"}, planet : {MERCURY},
             sidereal_mode : SiderealModes, samples : 1..MaxFinderSamples]

StartFinder(t) ==
    /\ pc[t] = "idle"
    /\ \E o \in OpFinder :
          /\ op' = [op EXCEPT ![t] = o]
          /\ left' = [left EXCEPT ![t] = o.samples]
    /\ pc' = [pc EXCEPT ![t] = "fd_ssm"]
    /\ result' = [result EXCEPT ![t] = NoResult]
    /\ nCalls' = [nCalls EXCEPT ![t] = 0]
    /\ nLocks' = [nLocks EXCEPT ![t] = 0]
    /\ UNCHANGED <<engineVars, lockVars, ghostVars>>

(* self.eph.set_sidereal_mode(sidereal_mode) *)
Finder_SelectMode(t) ==
    /\ pc[t] = "fd_ssm"
    /\ CanAcquire(t)
    /\ SWISS_LOCK' = Acquired(t)
    /\ eph_sidereal_mode' = op[t].sidereal_mode
    /\ pc' = [pc EXCEPT ![t] = "fd_ssm_swe"]
    /\ nCalls' = [nCalls EXCEPT ![t] = @ + 1]
    /\ nLocks' = [nLocks EXCEPT ![t] = @ + 1]
    /\ UNCHANGED <<state_lock, swe_sid_mode, swe_topo, swe_tid_acc, op, left, result, ghostVars>>

Finder_ModeSelected(t) ==
    /\ pc[t] = "fd_ssm_swe"
    /\ swe_sid_mode' = op[t].sidereal_mode
    /\ SWISS_LOCK' = Released
    /\ pc' = [pc EXCEPT ![t] = "fd_loop"]
    /\ UNCHANGED <<state_lock, swe_topo, swe_tid_acc, eph_sidereal_mode, op, left, result,
                   nCalls, nLocks, ghostVars>>

(* get_diff(jd): calculate_planet takes the lock *)
Finder_Sample_Call(t) ==
    /\ pc[t] = "fd_loop"
    /\ left[t] > 0
    /\ CanAcquire(t)
    /\ SWISS_LOCK' = Acquired(t)
    /\ pc' = [pc EXCEPT ![t] = "fd_cp_swe"]
    /\ nCalls' = [nCalls EXCEPT ![t] = @ + 1]
    /\ nLocks' = [nLocks EXCEPT ![t] = @ + 1]
    /\ UNCHANGED <<state_lock, engineVars, op, left, result, ghostVars>>

(* swe.calc_ut under the engine's current sidereal mode *)
Finder_Sample_Return(t) ==
    /\ pc[t] = "fd_cp_swe"
    /\ \E fails \in BOOLEAN :
         IF fails
         THEN /\ result' = [result EXCEPT ![t] = EngineError(nCalls[t])]
              /\ pc' = [pc EXCEPT ![t] = "done"]
              /\ UNCHANGED left
         ELSE /\ result' = [result EXCEPT ![t] =
                    Ok(calc_ut(sky, 0, op[t].planet, TRUE, swe_sid_mode).longitude)]
              /\ pc' = [pc EXCEPT ![t] = "fd_loop"]
              /\ left' = [left EXCEPT ![t] = @ - 1]
    /\ SWISS_LOCK' = Released
    /\ UNCHANGED <<state_lock, engineVars, op, nCalls, nLocks, ghostVars>>

Finder_Return(t) ==
    /\ pc[t] = "fd_loop"
    /\ left[t] = 0
    /\ pc' = [pc EXCEPT ![t] = "done"]
    /\ UNCHANGED <<lockVars, engineVars, op, left, result, nCalls, nLocks, ghostVars>>

StartSetSiderealMode(t) == \E o \in OpSetSiderealMode : Begin(t, o) /\ UNCHANGED ghostVars

NextFinders ==
    \E t \in Threads :
        \/ StartFinder(t)
        \/ Finder_SelectMode(t)
        \/ Finder_ModeSelected(t)
        \/ Finder_Sample_Call(t)
        \/ Finder_Sample_Return(t)
        \/ Finder_Return(t)
        \/ StartSetSiderealMode(t)
        \/ SetSiderealMode_Call(t)
        \/ SetSiderealMode_Return(t)
        \/ EndOp(t)

SpecFinders == Init /\ [][NextFinders]_vars

----------------------------------------------------------------------------
(* Construction of the singleton: Ephemeris() is __new__, then __init__ on *)
(* what __new__ returned.  A thread that holds the instance may call       *)
(* set_sidereal_mode.                                                      *)

StartConstruct(t) ==
    /\ Begin(t, [name |-> "Ephemeris"])
    /\ UNCHANGED ghostVars

(* __new__: if cls._instance is None *)
New_Check(t) ==
    /\ pc[t] = "new"
    /\ pc' = [pc EXCEPT ![t] = IF cls_instance = "None" THEN "new_lock" ELSE "init"]
    /\ UNCHANGED <<lockVars, engineVars, op, left, result, nCalls, nLocks, ghostVars>>

(* with cls._lock *)
New_Lock(t) ==
    /\ pc[t] = "new_lock"
    /\ cls_lock = NoThread
    /\ cls_lock' = t
    /\ pc' = [pc EXCEPT ![t] = "new_locked"]
    /\ UNCHANGED <<lockVars, engineVars, op, left, result, nCalls, nLocks, prior, sky, sampled,
                   cls_instance, initialized, initRuns>>

(* if cls._instance is None: cls._instance = super().__new__(cls) *)
New_Create(t) ==
    /\ pc[t] = "new_locked"
    /\ IF cls_instance = "None"
       THEN /\ cls_instance' = "created"
            /\ initialized' = "unset"
            /\ pc' = [pc EXCEPT ![t] = "new_created"]
            /\ UNCHANGED cls_lock
       ELSE /\ cls_lock' = NoThread
            /\ pc' = [pc EXCEPT ![t] = "init"]
            /\ UNCHANGED <<cls_instance, initialized>>
    /\ UNCHANGED <<lockVars, engineVars, op, left, result, nCalls, nLocks, prior, sky, sampled,
                   initRuns>>

(* cls._instance._initialized = False, and the lock is left *)
New_Unmark(t) ==
    /\ pc[t] = "new_created"
    /\ initialized' = "False"
    /\ cls_lock' = NoThread
    /\ pc' = [pc EXCEPT ![t] = "init"]
    /\ UNCHANGED <<lockVars, engineVars, op, left, result, nCalls, nLocks, prior, sky, sampled,
                   cls_instance, initRuns>>

(* __init__: if self._initialized: return *)
Init_Check(t) ==
    /\ pc[t] = "init"
    /\ IF initialized = "unset"
       THEN /\ pc' = [pc EXCEPT ![t] = "done"]
            /\ result' = [result EXCEPT ![t] = Raised("AttributeError")]
       ELSE IF initialized = "True"
       THEN /\ pc' = [pc EXCEPT ![t] = "done"]
            /\ result' = [result EXCEPT ![t] = Ok(0)]
       ELSE /\ pc' = [pc EXCEPT ![t] = "init_lock"]
            /\ UNCHANGED result
    /\ UNCHANGED <<lockVars, engineVars, op, left, nCalls, nLocks, ghostVars>>

(* with _SWISS_LOCK: self._sidereal_mode = SiderealMode.LAHIRI *)
Init_Lock(t) ==
    /\ pc[t] = "init_lock"
    /\ CanAcquire(t)
    /\ SWISS_LOCK' = Acquired(t)
    /\ eph_sidereal_mode' = LAHIRI
    /\ pc' = [pc EXCEPT ![t] = "init_swe"]
    /\ nLocks' = [nLocks EXCEPT ![t] = @ + 1]
    /\ UNCHANGED <<state_lock, swe_sid_mode, swe_topo, swe_tid_acc, op, left, result, nCalls,
                   ghostVars>>

(* swe.set_ephe_path, swe.set_sid_mode, swe.set_tid_acc; any may raise *)
Init_Body(t) ==
    /\ pc[t] = "init_swe"
    /\ SWISS_LOCK' = Released
    /\ \E fails \in BOOLEAN :
          IF fails
          THEN /\ pc' = [pc EXCEPT ![t] = "done"]
               /\ result' = [result EXCEPT ![t] = Raised("EphemerisError")]
               /\ UNCHANGED <<swe_sid_mode, swe_tid_acc, initRuns, nCalls>>
          ELSE /\ swe_sid_mode' = eph_sidereal_mode
               /\ swe_tid_acc' = TIDAL_AUTOMATIC
               /\ initRuns' = initRuns + 1
               /\ nCalls' = [nCalls EXCEPT ![t] = @ + 3]
               /\ pc' = [pc EXCEPT ![t] = "init_mark"]
               /\ UNCHANGED result
    /\ UNCHANGED <<state_lock, swe_topo, eph_sidereal_mode, op, left, nLocks, prior, sky, sampled,
                   cls_instance, cls_lock, initialized>>

(* self._initialized = True *)
Init_Mark(t) ==
    /\ pc[t] = "init_mark"
    /\ initialized' = "True"
    /\ pc' = [pc EXCEPT ![t] = "done"]
    /\ result' = [result EXCEPT ![t] = Ok(0)]
    /\ UNCHANGED <<lockVars, engineVars, op, left, nCalls, nLocks, prior, sky, sampled,
                   cls_instance, cls_lock, initRuns>>

(* a thread can call set_sidereal_mode once a construction has returned *)
StartSelect(t) ==
    /\ initialized = "True"
    /\ StartSetSiderealMode(t)

InitBoot ==
    /\ SWISS_LOCK = [owner |-> NoThread, count |-> 0]
    /\ state_lock = NoThread
    /\ swe_sid_mode = LAHIRI
    /\ swe_topo = Geocentric
    /\ swe_tid_acc = TIDAL_AUTOMATIC
    /\ eph_sidereal_mode = LAHIRI
    /\ pc = [t \in Threads |-> "idle"]
    /\ op = [t \in Threads |-> IdleOp]
    /\ left = [t \in Threads |-> 0]
    /\ result = [t \in Threads |-> NoResult]
    /\ nCalls = [t \in Threads |-> 0]
    /\ nLocks = [t \in Threads |-> 0]
    /\ prior = [sid |-> LAHIRI, topo |-> Geocentric, tid |-> TIDAL_AUTOMATIC]
    /\ sky = DefaultSky
    /\ sampled = None
    /\ cls_instance = "None"
    /\ cls_lock = NoThread
    /\ initialized = "unset"
    /\ initRuns = 0

NextBoot ==
    \E t \in Threads :
        \/ StartConstruct(t)
        \/ New_Check(t)
        \/ New_Lock(t)
        \/ New_Create(t)
        \/ New_Unmark(t)
        \/ Init_Check(t)
        \/ Init_Lock(t)
        \/ Init_Body(t)
        \/ Init_Mark(t)
        \/ StartSelect(t)
        \/ SetSiderealMode_Call(t)
        \/ SetSiderealMode_Return(t)
        \/ EndOp(t)

SpecBoot == InitBoot /\ [][NextBoot]_vars

----------------------------------------------------------------------------
(* Properties *)

InBlock(t) == op[t].name = "EphemerisContext" /\ pc[t] \in {"body", "cp", "cp_swe"}

Done(name) == pc[Caller] = "done" /\ op[Caller].name = name

\* C1: engine calls and configuration mutations are serialized by one lock:
\* no two threads are inside a swe call at the same time.
C1_EngineAccessSerialized ==
    \A t, u \in Threads : t # u => ~(InSwe(t) /\ InSwe(u))

\* C2: while a thread is inside an EphemerisContext block, no other thread
\* is inside a swe call (sample or configuration change).
C2_ContextBlockExcludesOthers ==
    \A t, u \in Threads : (t # u /\ InBlock(t)) => ~InSwe(u)

\* C3: when an EphemerisContext block has been left, on any path (normal end,
\* return, exception of the body, exception of a sample), every setting the
\* context overrode has its default: Lahiri, geocentric, automatic tidal.
C3_ExitRestoresDefaults ==
    Done("EphemerisContext") =>
        /\ op[Caller].sid_mode # None => swe_sid_mode = LAHIRI
        /\ op[Caller].topo # None => swe_topo = Geocentric
        /\ op[Caller].tidal # None => swe_tid_acc = TIDAL_AUTOMATIC

C3_Witness ==
    /\ Done("EphemerisContext")
    /\ result[Caller].kind = "EphemerisError"
    /\ op[Caller].sid_mode = Some(RAMAN)
    /\ op[Caller].topo # None
    /\ op[Caller].tidal # None

\* C4: when an EphemerisContext block has been left, the engine's sidereal
\* mode, topocentric position and tidal model are those in force when the
\* block was entered.
C4_ExitRestoresEntryConfig ==
    Done("EphemerisContext") => Config = prior

\* C5: when a service operation that selects an ayanamsa has returned or
\* raised, the engine's sidereal mode is the one in force before it started.
C5_ServiceLeavesModeUnchanged ==
    \A name \in {"find_planetary_return", "find_next_ingress", "scan_ingresses",
                 "scan_stations", "NatalService.calculate_positions"} :
        Done(name) => swe_sid_mode = prior.sid

\* C6: calculate_planet for a body outside ALLOWED_PLANETS ends in
\* UnsupportedPlanetError, having neither taken the lock nor called swe.
C6_UnsupportedBodyNeverReachesEngine ==
    \A t \in Threads :
        (op[t].name = "calculate_planet" /\ op[t].planet \notin ALLOWED_PLANETS) =>
            /\ pc[t] \in {"cp", "done"}
            /\ nCalls[t] = 0
            /\ nLocks[t] = 0
            /\ pc[t] = "done" => result[t] = Raised("UnsupportedPlanetError")

C6_Witness ==
    \E t \in Threads :
        /\ pc[t] = "done"
        /\ op[t].name = "calculate_planet"
        /\ op[t].planet = 999
        /\ SWISS_LOCK.owner \notin {NoThread, t}

\* C7: an operation during which a swe call raised ends in EphemerisError
\* carrying the message of that exception, never in a normal result.
C7_EngineFailureSurfaces ==
    (pc[Caller] = "done" /\ result[Caller].swe_error # 0) =>
        /\ result[Caller].kind = "EphemerisError"
        /\ result[Caller].val = result[Caller].swe_error

\* C8: an eclipse search with an end bound raises SearchRangeTooLargeError
\* without calling swe when |jd_end - jd_start| > 36525 days, and otherwise
\* (exactly 36525 days included) does not raise it and calls swe once.
C8_EclipseGuardrail ==
    \A name \in {"search_solar_eclipse", "search_lunar_eclipse"} :
        (Done(name) /\ op[Caller].jd_end # None) =>
            IF Abs(op[Caller].jd_end[1] - op[Caller].jd_start) > 2 * MAX_SEARCH_DAYS
            THEN result[Caller] = Raised("SearchRangeTooLargeError") /\ nCalls[Caller] = 0
            ELSE result[Caller].kind # "SearchRangeTooLargeError" /\ nCalls[Caller] = 1

C8_Witness ==
    /\ Done("search_lunar_eclipse")
    /\ op[Caller].jd_end # None
    /\ Abs(op[Caller].jd_end[1] - op[Caller].jd_start) = 2 * MAX_SEARCH_DAYS
    /\ result[Caller].kind = "ok"

\* C9: a scan whose window exceeds MAX_SEARCH_DAYS raises
\* SearchRangeTooLargeError having made no swe call at all, and leaves the
\* engine configuration as it was before the call.
C9_ScanGuardrailPrecedesEngine ==
    \A name \in {"scan_ingresses", "scan_stations"} :
        (Done(name) /\ (op[Caller].end - op[Caller].start) > 2 * MAX_SEARCH_DAYS) =>
            /\ result[Caller] = Raised("SearchRangeTooLargeError")
            /\ nCalls[Caller] = 0
            /\ Config = prior

\* C10: calculate_stationary_point for the Sun or the Moon returns None
\* without calling swe and without raising, whatever the start, direction
\* and max_days.
C10_SunMoonNeverStation ==
    (Done("calculate_stationary_point") /\ op[Caller].planet \in {SUN, MOON}) =>
        result[Caller] = NotFound /\ nCalls[Caller] = 0

C10_Witness ==
    /\ Done("calculate_stationary_point")
    /\ op[Caller].planet = MOON
    /\ ~op[Caller].forward
    /\ op[Caller].max_days = MaxDaysBound
    /\ op[Caller].failAt = 1
    /\ result[Caller] = NotFound

\* C11: scan_stations for the Sun or the Moon returns an empty list, without
\* raising and without any swe call, whatever the window.
C11_ScanStationsSunMoonAbsent ==
    (Done("scan_stations") /\ op[Caller].planet \in {SUN, MOON}) =>
        result[Caller] = OkList(<<>>) /\ nCalls[Caller] = 0

\* C12: a finder whose broad search ends without a bracket, no swe call
\* having failed, ends in the absence value None, never in an exception.
C12_NotFoundIsAbsence ==
    \A name \in {"find_planetary_return", "find_next_ingress", "compute_return"} :
        (Done(name) /\ result[Caller].swe_error = 0) => result[Caller].kind \in {"ok", "None"}

\* The longitude the engine gives the caller's body at time jd, in the
\* sidereal mode the caller's operation asked for.
LongitudeAt(jd) ==
    calculate_planet(sky, op[Caller].sidereal_mode, jd, op[Caller].planet, TRUE, 0, 0).longitude

\* C13: the time find_planetary_return returns is within the tolerance of
\* the crossing: the body's longitude there differs from the target by no
\* more than the body moves in tolerance_seconds, direct or retrograde.
C13_ReturnWithinTolerance ==
    (Done("find_planetary_return") /\ result[Caller].kind = "ok") =>
        Abs(SignedOffset(LongitudeAt(result[Caller].val), op[Caller].target_longitude))
            <= TolTicks(1)

\* The 30-degree boundary between two adjacent signs: the start of the
\* higher one, 0 for Pisces and Aries.
BoundaryBetween(s1, s2) ==
    IF {s1, s2} = {0, 11} THEN 0 ELSE (IF s1 > s2 THEN s1 ELSE s2) * Deg(30)

Forward(e) == e.to = (e.from + 1) % 12

AtBoundary(e) ==
    Abs(SignedOffset(LongitudeAt(e.julian_day), BoundaryBetween(e.from, e.to)))
        <= TicksPerDay \div 10000000

\* C14: every INGRESS event of scan_ingresses is dated, within the bisection
\* tolerance, at the moment the longitude is on the boundary between
\* sign_from and sign_to, whether the body entered sign_to forward or
\* retrograde.
C14_IngressAtBoundary ==
    (Done("scan_ingresses") /\ result[Caller].kind = "ok") =>
        \A k \in 1..Len(result[Caller].items) : AtBoundary(result[Caller].items[k])

\* The offset from the target of the longitude at the time a return finder
\* gave; compute_return samples in the mode the engine is in.
OffsetAtReturn ==
    IF op[Caller].name = "compute_return"
    THEN SignedOffset(calculate_planet(sky, swe_sid_mode, result[Caller].val,
                                       op[Caller].planet, TRUE, 0, 0).longitude,
                      op[Caller].target_long)
    ELSE SignedOffset(LongitudeAt(result[Caller].val), op[Caller].target_longitude)

ReturnFound(name) == Done(name) /\ result[Caller].kind = "ok"

\* C15: a time reported by a return finder is never at the far side of the
\* circle, where the signed offset jumps between +180 and -180: the body is
\* within 90 degrees of the target there.
C15_NoCrossingAtDiscontinuity ==
    (ReturnFound("find_planetary_return") \/ ReturnFound("compute_return")) =>
        Abs(OffsetAtReturn) < Deg(90)

SignJustAfter(jd) == SignOf(LongitudeAt(jd + 2 * TolTicks(1))) + 1

\* C17: the sign number find_next_ingress returns is the sign the body
\* enters: the sign of its longitude just after the ingress time, for
\* forward and for retrograde crossings.
C17_IngressSignIsEntered ==
    (Done("find_next_ingress") /\ result[Caller].kind = "ok") =>
        result[Caller].items[1] = SignJustAfter(result[Caller].val)

\* The events find_parans collected for the caller, and the pairs it gave.
Collected == CollectLoop(op[Caller].table, Midnight(op[Caller].time), 1, 1, <<>>, 0, 0).events

IndexOf(events, planet, type) ==
    CHOOSE i \in 1..Len(events) : events[i].planet = planet /\ events[i].type = type

ParansFound == Done("find_parans") /\ result[Caller].kind = "ok"

\* C18: the two events of every pair find_parans returns are no further
\* apart than orb_minutes / 1440 days, and the pair's orb_minutes field is
\* at most the caller's orb_minutes.
C18_ParanWithinOrb ==
    ParansFound =>
        \A events \in {Collected} : \A k \in 1..Len(result[Caller].items) :
            LET r == result[Caller].items[k]
                jd1 == events[IndexOf(events, r.p1, r.type1)].jd
                jd2 == events[IndexOf(events, r.p2, r.type2)].jd
            IN  /\ Abs(jd1 - jd2) * 1440 <= op[Caller].orb_minutes * TicksPerDay
                /\ r.orb_minutes <= op[Caller].orb_minutes * TicksPerDay

C18_Witness ==
    ParansFound /\ \E k \in 1..Len(result[Caller].items) : result[Caller].items[k].orb_minutes > 0

PairIndex(events, r) == <<IndexOf(events, r.p1, r.type1), IndexOf(events, r.p2, r.type2)>>

PairIndices(events) == [k \in 1..Len(result[Caller].items) |-> PairIndex(events, result[Caller].items[k])]

LexBefore(a, b) == a[1] < b[1] \/ (a[1] = b[1] /\ a[2] < b[2])

\* C19: find_parans returns exactly the pairs i < j of collected events that
\* are within the orb, each once, in increasing lexicographic order of
\* (i, j), whatever their tightness.
C19_ParansInDiscoveryOrder ==
    ParansFound =>
        \A events \in {Collected} : \A found \in {PairIndices(events)} :
            /\ \A k \in 1..(Len(found) - 1) : LexBefore(found[k], found[k + 1])
            /\ {found[k] : k \in 1..Len(found)} =
                   {ij \in (1..Len(events)) \X (1..Len(events)) :
                       /\ ij[1] < ij[2]
                       /\ Abs(events[ij[1]].jd - events[ij[2]].jd) * 1440
                              <= op[Caller].orb_minutes * TicksPerDay}

C19_Witness ==
    ParansFound /\ \E k \in 1..(Len(result[Caller].items) - 1) :
        result[Caller].items[k].orb_minutes > result[Caller].items[k + 1].orb_minutes

\* C20: a calculate_planet call with the julian day, body and flags of an
\* earlier call returns what that call returned, whatever the same or
\* another thread did in between.
C20_RepeatedSampleIdentical ==
    \A t \in Threads :
        (/\ pc[t] = "done"
         /\ op[t].name = "calculate_planet"
         /\ result[t].kind = "ok"
         /\ sampled # None
         /\ sampled[1].jd = op[t].jd
         /\ sampled[1].planet = op[t].planet
         /\ sampled[1].sidereal = op[t].sidereal) =>
            result[t].val = sampled[1].longitude

\* C21: find_all_stations ends, and the stations it returns are in strictly
\* increasing order of julian day, each at least the five days of the skip
\* after the one before, none before the start of the year and none after
\* its end; so there are no more of them than the year has skips.
C21_StationsIncreasingWithinYear ==
    (Done("find_all_stations") /\ result[Caller].kind = "ok") =>
        LET st == result[Caller].items
            end_jd == op[Caller].year_start + Days(op[Caller].year_days) - TicksPerDay \div 1440
        IN  /\ \A k \in 1..(Len(st) - 1) : st[k].jd + Days(SkipDays) <= st[k + 1].jd
            /\ \A k \in 1..Len(st) : op[Caller].year_start <= st[k].jd /\ st[k].jd <= end_jd
            /\ Len(st) <= op[Caller].year_days \div SkipDays + 1

C21_Witness ==
    /\ Done("find_all_stations")
    /\ result[Caller].kind = "ok"
    /\ Len(result[Caller].items) >= 2
    /\ result[Caller].items[1].type # result[Caller].items[2].type

\* What the body of the caller's scan really does over a stretch of time:
\* the tick of its first station after jd (-1 when it has none), the sign
\* it is in counted without wrapping, and the number of sign boundaries it
\* crosses from tick a to tick b.
NextStation(s, planet, jd) ==
    IF ~Stations(planet) \/ s.dir = 0
    THEN -1
    ELSE IF jd < s.root
    THEN s.root
    ELSE IF s.period = 0
    THEN -1
    ELSE s.root + ((jd - s.root) \div s.period + 1) * s.period

UnwrappedSign(s, planet, mode, jd) ==
    (s.lon0 + Moved(s, planet, jd) - Ayanamsa(mode)) \div (30 * DegUnits)

RECURSIVE BoundariesCrossed(_, _, _, _, _)
BoundariesCrossed(s, planet, mode, a, b) ==
    LET r == NextStation(s, planet, a)
    IN  IF r # -1 /\ r < b
        THEN Abs(UnwrappedSign(s, planet, mode, r) - UnwrappedSign(s, planet, mode, a))
                 + BoundariesCrossed(s, planet, mode, r, b)
        ELSE Abs(UnwrappedSign(s, planet, mode, b) - UnwrappedSign(s, planet, mode, a))

ScanOver(name) == Done(name) /\ result[Caller].kind = "ok"

ScanStart == op[Caller].start * HalfDay

ScanEnd == op[Caller].end * HalfDay

\* C22: when the body crosses exactly one sign boundary between the start
\* and the end of an ingress scan, the scan returns exactly one event, dated
\* within the window, whose sign_to is a neighbour of its sign_from.
C22_OneCrossingOneIngress ==
    (/\ ScanOver("scan_ingresses")
     /\ ScanStart < ScanEnd
     /\ BoundariesCrossed(sky, op[Caller].planet, op[Caller].sidereal_mode,
                          ScanStart, ScanEnd) = 1) =>
        /\ Len(result[Caller].items) = 1
        /\ ScanStart <= result[Caller].items[1].julian_day
        /\ result[Caller].items[1].julian_day <= ScanEnd
        /\ (result[Caller].items[1].to - result[Caller].items[1].from) % 12 \in {1, 11}

C22_Witness ==
    /\ ScanOver("scan_ingresses")
    /\ ScanStart < ScanEnd
    /\ BoundariesCrossed(sky, op[Caller].planet, op[Caller].sidereal_mode,
                         ScanStart, ScanEnd) = 1
    /\ Len(result[Caller].items) = 1
    /\ result[Caller].items[1].to = (result[Caller].items[1].from + 11) % 12

\* The number of stations of the body strictly between tick a and tick b.
RECURSIVE StationsWithin(_, _, _, _)
StationsWithin(s, planet, a, b) ==
    LET r == NextStation(s, planet, a)
    IN  IF r # -1 /\ r < b THEN 1 + StationsWithin(s, planet, r, b) ELSE 0

\* C23: when the speed of the body reverses exactly once between the start
\* and the end of a station scan, the scan returns exactly one event, whose
\* speed_before and speed_after have opposite signs, also when a sample of
\* the scan falls on the instant of zero speed.
C23_OneReversalOneStation ==
    (/\ ScanOver("scan_stations")
     /\ StationsWithin(sky, op[Caller].planet, ScanStart, ScanEnd) = 1) =>
        /\ Len(result[Caller].items) = 1
        /\ Reversed(result[Caller].items[1].from, result[Caller].items[1].to)

\* C24: the coarse discovery of every finder ends: for every window and step
\* the caller supplies, a finder that has entered its discovery loop leaves it.
CoarseOver == pc[Caller] = "done" \/ (pc[Caller] = "refine" /\ op[Caller].name \notin Scans)

C24_CoarseDiscoveryEnds == (pc[Caller] = "coarse") ~> CoarseOver

(* after k iterations the bracket is at most width0 / 2^k wide, the        *)
(* midpoint being rounded to a tick                                        *)
BracketHalved ==
    pc[Caller] = "refine" =>
        \A o \in {op[Caller]} :
            \/ Abs(o.high - o.low) <= 1
            \/ o.k <= 30 /\ (Abs(o.high - o.low) - 1) * 2^(o.k) < o.width0

\* C25: bisection converges: each iteration halves the bracket, the loop of
\* find_planetary_return ends for every tolerance_seconds, and the loops of a
\* fixed count end within their budget.
C25_BisectionConverges ==
    /\ [](BracketHalved /\ (pc[Caller] = "refine" /\ op[Caller].name # "find_planetary_return"
                               => op[Caller].k <= Budget(op[Caller])))
    /\ (pc[Caller] = "refine") ~> (pc[Caller] # "refine")


\* C26: every sample of a root finder is computed under the sidereal mode the
\* finder selected at its start, whatever other threads do meanwhile.
C26_SamplesUnderSelectedMode ==
    \A t \in Threads :
        (pc[t] = "fd_cp_swe") => swe_sid_mode = op[t].sidereal_mode

(* the signed offset get_diff gives at jd for the finder o *)
OffsetAt(o, jd) == SignedOffset(calc_ut(sky, jd, o.planet, TRUE, o.mode).longitude, o.target)

Straddles(lo, hi) == lo = 0 \/ hi = 0 \/ (lo < 0 /\ hi > 0) \/ (lo > 0 /\ hi < 0)

\* C27: throughout the bisection of find_planetary_return the bracket contains
\* the root: the signed offsets at jd_low and jd_high have opposite signs or one
\* of them is zero.
C27_BracketContainsRoot ==
    (pc[Caller] = "refine" /\ op[Caller].name = "find_planetary_return") =>
        Straddles(OffsetAt(op[Caller], op[Caller].low), OffsetAt(op[Caller], op[Caller].high))

\* C28: the body of Ephemeris.__init__ runs once, however many threads
\* construct Ephemeris() at the same time, and a construction never resets a
\* sidereal mode selected since.
C28_InitializedOnce == initRuns <= 1

\* C29: while a context that overrides the sidereal mode to X is active, the
\* samples its thread takes in its block are computed under X, also the one
\* taken after a nested context that overrides the mode too has exited.
C29_OuterModeHoldsInBlock ==
    (/\ Done("nested EphemerisContext")
     /\ result[Caller].kind = "ok"
     /\ op[Caller].outer.sid_mode # None) =>
        /\ result[Caller].items[1].mode = op[Caller].outer.sid_mode[1]
        /\ result[Caller].items[3].mode = op[Caller].outer.sid_mode[1]

(* the bodies find_parans has asked the engine about: four queries a body, *)
(* in the order of planets_to_check                                        *)
Queried == SubSeq(planets_to_check, 1, (nCalls[Caller] + 3) \div 4)

\* C30: every body find_parans asks the engine about is in ALLOWED_PLANETS.
C30_ParanBodiesAllowed ==
    Done("find_parans") => \A i \in 1..Len(Queried) : Queried[i] \in ALLOWED_PLANETS

====
